---- MODULE Spec2Model ----
(***************************************************************************)
(* Model of publish_nostr.py (scrutiny-fabric): the bech32 / NIP-19 TLV    *)
(* identifier codec, the naddr resolver, and the retrying HTTP client.     *)
(*                                                                         *)
(* Text is modelled as a sequence of character codes (ord values), bytes   *)
(* as a sequence of integers in 0..255, a Python dict as a function whose  *)
(* DOMAIN is the set of keys present.  A function that can raise returns a *)
(* record with field ok; on failure err names the raise statement.         *)
(***************************************************************************)
EXTENDS Integers, Sequences, FiniteSets, TLC

VARIABLES
    \* ---- pure codec functions applied to one input
    cpc,            \* "ready" | "done"
    cfn,            \* which function is applied
    carg,           \* its argument
    cres,           \* its result
    \* ---- http_request
    hpc,            \* position inside http_request
    opener,         \* what the module global urlopen is bound to
    method,         \* argument method
    max_retries,    \* argument max_retries
    attempt,        \* local attempt
    last_exc,       \* local last_exc
    pending,        \* outcome of _do in the worker thread, not yet received by the coroutine
    calls,          \* the urlopen calls made so far: server answer and outcome
    sleeps,         \* backoff sleeps made so far, in milliseconds
    hresult,        \* what the call returned / raised
    \* ---- parse_or_resolve_event_id / resolve_naddr_to_event_id
    rpc,            \* position inside the call
    rinput,         \* argument input_str, with the records it was assembled from
    relay_urls,     \* argument relay_urls
    tok,            \* local tok
    decoded,        \* result of the latest step of decode_naddr
    relays,         \* local relays
    client,         \* state of the Client object
    events_list,    \* local events_list
    rfault,         \* exception in flight inside the try block
    rresult,        \* what the call returned / raised
    trace,          \* steps and client operations performed, in order
    \* ---- fetch_relay_min_pow
    ppc,            \* position inside the call
    probes,         \* argument relay_urls, each URL with what http_request does for it
    pidx,           \* index of the relay the for loop is at
    max_pow,        \* local max_pow
    diag,           \* local diag
    requests,       \* the URLs http_request was called with, in order
    presult,        \* what the call returned
    DEFAULT_POW,    \* module constant DEFAULT_POW, read from SCRUTINY_POW at import
    chosen,         \* what resolve_pow returned
    \* ---- publish_event_with_client
    pub_pc,         \* position inside the call
    DRY_RUN,        \* module global DRY_RUN
    PUBLISH_MODE,   \* module global PUBLISH_MODE
    builder,        \* argument builder: the event it builds
    pub_relay_urls, \* argument relay_urls
    pub_r,          \* index of the relay the for loop is at
    clients,        \* number of Client objects created so far; the latest is `client`
    last_err,       \* local last_err
    pub_fault,      \* exception in flight inside the try block
    eid_hex,        \* local eid_hex
    pub_result,     \* what the call returned / raised
    pub_trace,      \* signing and client operations performed, in order
    \* ---- create_contestation_event / create_confirmation_event with evidence URL
    fpc,            \* position inside the flow
    flow,           \* which of the two functions runs
    stage,          \* the event build_sign_preview_publish is working on
    bspp,           \* what the latest build_sign_preview_publish returned / raised
    evidence_e_id_hex, \* local evidence_e_id_hex / alt_hex; empty while None
    ftrace          \* builds, previews, answers and publish calls, in order

cvars == <<cpc, cfn, carg, cres>>
hvars == <<hpc, opener, method, max_retries, attempt, last_exc, pending, calls, sleeps, hresult>>
rvars == <<rpc, rinput, relay_urls, tok, decoded, relays, client, events_list,
           rfault, rresult, trace>>
pvars == <<ppc, probes, pidx, max_pow, diag, requests, presult, DEFAULT_POW, chosen>>
uvars == <<pub_pc, DRY_RUN, PUBLISH_MODE, builder, pub_relay_urls, pub_r, clients, last_err,
           pub_fault, eid_hex, pub_result, pub_trace>>
fvars == <<fpc, flow, stage, bspp, evidence_e_id_hex, ftrace>>
vars == <<cvars, hvars, rvars, pvars, uvars, fvars>>

----------------------------------------------------------------------------
(* Sequencing.  Bind(e, LAMBDA v : body) is "v = e; body" of the program:  *)
(* e is evaluated once, before body, and v names its value.                *)

Bind(e, F(_)) == CHOOSE r \in {F(v) : v \in {e}} : TRUE

----------------------------------------------------------------------------
(* Integer bit operations of Python on non-negative ints.                  *)

Shl(x, n) == x * 2^n
Shr(x, n) == x \div 2^n

AndBits[p \in Nat \X Nat] ==
    IF p[1] = 0 \/ p[2] = 0 THEN 0
    ELSE (IF p[1] % 2 = 1 /\ p[2] % 2 = 1 THEN 1 ELSE 0)
         + 2 * AndBits[<<p[1] \div 2, p[2] \div 2>>]

OrBits[p \in Nat \X Nat] ==
    IF p[1] = 0 THEN p[2]
    ELSE IF p[2] = 0 THEN p[1]
    ELSE (IF p[1] % 2 = 1 \/ p[2] % 2 = 1 THEN 1 ELSE 0)
         + 2 * OrBits[<<p[1] \div 2, p[2] \div 2>>]

XorBits[p \in Nat \X Nat] ==
    IF p[1] = 0 THEN p[2]
    ELSE IF p[2] = 0 THEN p[1]
    ELSE (IF p[1] % 2 # p[2] % 2 THEN 1 ELSE 0)
         + 2 * XorBits[<<p[1] \div 2, p[2] \div 2>>]

BitAnd(a, b) == AndBits[<<a, b>>]
BitOr(a, b) == OrBits[<<a, b>>]
BitXor(a, b) == XorBits[<<a, b>>]

----------------------------------------------------------------------------
(* Text helpers: str.lower, str.upper, str.strip, str.startswith, rfind.   *)

IsUpperCh(c) == c >= 65 /\ c <= 90
IsLowerCh(c) == c >= 97 /\ c <= 122
IsDigitCh(c) == c >= 48 /\ c <= 57
IsSpaceCh(c) == c \in {9, 10, 11, 12, 13, 32}

LowerCh(c) == IF IsUpperCh(c) THEN c + 32 ELSE c
UpperCh(c) == IF IsLowerCh(c) THEN c - 32 ELSE c

Lower(s) == [i \in 1..Len(s) |-> LowerCh(s[i])]
Upper(s) == [i \in 1..Len(s) |-> UpperCh(s[i])]

StartsWith(s, p) == Len(s) >= Len(p) /\ SubSeq(s, 1, Len(p)) = p

\* s[n:] of Python, n >= 0
Drop(s, n) == SubSeq(s, n + 1, Len(s))

Strip(s) ==
    LET keep == {i \in 1..Len(s) : ~IsSpaceCh(s[i])}
    IN  IF keep = {} THEN <<>>
        ELSE SubSeq(s, CHOOSE i \in keep : \A j \in keep : i <= j,
                       CHOOSE i \in keep : \A j \in keep : i >= j)

\* str.rfind of one character, as a 0-based offset, -1 when absent
RFind(s, c) ==
    LET at == {i \in 1..Len(s) : s[i] = c}
    IN  IF at = {} THEN -1 ELSE (CHOOSE i \in at : \A j \in at : i >= j) - 1

\* "naddr1", "nprofile1", "nostr:"
NADDR1 == <<110, 97, 100, 100, 114, 49>>
NPROFILE1 == <<110, 112, 114, 111, 102, 105, 108, 101, 49>>
NOSTR_COLON == <<110, 111, 115, 116, 114, 58>>
\* "naddr", "nprofile"
HRP_NADDR == <<110, 97, 100, 100, 114>>
HRP_NPROFILE == <<110, 112, 114, 111, 102, 105, 108, 101>>

----------------------------------------------------------------------------
(* Bech32                                                                  *)

\* "qpzry9x8gf2tvdw0s3jn54khce6mua7l"
_BECH32_CHARSET ==
    <<113, 112, 122, 114, 121, 57, 120, 56, 103, 102, 50, 116, 118, 100, 119, 48,
      115, 51, 106, 110, 53, 52, 107, 104, 99, 101, 54, 109, 117, 97, 55, 108>>

InCharset(c) == \E i \in 1..Len(_BECH32_CHARSET) : _BECH32_CHARSET[i] = c

\* _BECH32_CHARSET_MAP[c], for c in the charset
_BECH32_CHARSET_MAP(c) == (CHOOSE i \in 1..Len(_BECH32_CHARSET) : _BECH32_CHARSET[i] = c) - 1

\* 0x3b6a57b2, 0x26508e6d, 0x1ea119fa, 0x3d4233dd, 0x2a1462b3
GEN == <<996825010, 642813549, 513874426, 1027748829, 705979059>>

\* one pass of the loop body of _bech32_polymod for value v
PolymodStep(chk, v) ==
    LET b == BitAnd(Shr(chk, 25), 255)
        c0 == BitXor(Shl(BitAnd(chk, 33554431), 5), v)
        RECURSIVE Fold(_, _)
        Fold(c, i) == IF i > 5 THEN c
                      ELSE Fold(BitXor(c, IF BitAnd(Shr(b, i - 1), 1) = 1 THEN GEN[i] ELSE 0),
                                i + 1)
    IN  Fold(c0, 1)

\* the loop "for v in values" over values[lo..hi]: the first half, then the second
RECURSIVE PolymodRange(_, _, _, _)
PolymodRange(chk, values, lo, hi) ==
    IF lo > hi THEN chk
    ELSE IF lo = hi THEN PolymodStep(chk, values[lo])
    ELSE Bind(PolymodRange(chk, values, lo, (lo + hi) \div 2),
              LAMBDA left : PolymodRange(left, values, ((lo + hi) \div 2) + 1, hi))

_bech32_polymod(values) == Bind(values, LAMBDA vs : PolymodRange(1, vs, 1, Len(vs)))

_bech32_hrp_expand(hrp) ==
    Bind(hrp, LAMBDA h :
         [i \in 1..Len(h) |-> Shr(h[i], 5)] \o <<0>> \o [i \in 1..Len(h) |-> BitAnd(h[i], 31)])

\* a verification that accepts every checksum
_bech32_verify_checksum_Always(hrp, data) == TRUE

_bech32_verify_checksum(hrp, data) == _bech32_polymod(_bech32_hrp_expand(hrp) \o data) = 1

NoneNone == [ok |-> FALSE]

\* the part of _bech32_decode_to_words after "bech = bech.lower()"
DecodeLowered(bech) ==
    Bind(RFind(bech, 49), LAMBDA pos :
      IF pos < 1 \/ pos + 7 > Len(bech) THEN NoneNone
      ELSE Bind(Drop(bech, pos + 1), LAMBDA data_part :
        IF \E i \in 1..Len(data_part) : ~InCharset(data_part[i]) THEN NoneNone
        ELSE Bind([i \in 1..Len(data_part) |-> _BECH32_CHARSET_MAP(data_part[i])],
                  LAMBDA data :
          IF ~_bech32_verify_checksum(SubSeq(bech, 1, pos), data) THEN NoneNone
          ELSE [ok |-> TRUE, hrp |-> SubSeq(bech, 1, pos),
                words |-> SubSeq(data, 1, Len(data) - 6)])))

\* a case check that lets every text through
MixedCase_Never(bech) == FALSE

\* "bech.lower() != bech and bech.upper() != bech"
MixedCase(bech) == Lower(bech) # bech /\ Upper(bech) # bech

_bech32_decode_to_words(bech0) ==
    Bind(bech0, LAMBDA bech :
      IF MixedCase(bech)
           \/ (\E i \in 1..Len(bech) : bech[i] < 33 \/ bech[i] > 126)
      THEN NoneNone
      ELSE Bind(Lower(bech), LAMBDA lowered : DecodeLowered(lowered)))

----------------------------------------------------------------------------
(* Bit regrouping and the NIP-19 payload                                   *)

\* the "while bits >= tobits" loop: returns <<bits, ret>>
Emit(acc, bits, ret, tobits, maxv) ==
    LET RECURSIVE W(_, _)
        W(b, r) == IF b >= tobits
                   THEN W(b - tobits, Append(r, BitAnd(Shr(acc, b - tobits), maxv)))
                   ELSE <<b, r>>
    IN  W(bits, ret)

\* one pass of the loop "for value in data"; st.ok = FALSE once None was returned
ConvertStep(st, value, frombits, tobits) ==
    IF ~st.ok THEN st
    ELSE IF value < 0 \/ Shr(value, frombits) # 0
         THEN [ok |-> FALSE, acc |-> 0, bits |-> 0, ret |-> <<>>]
    ELSE Bind(BitAnd(BitOr(Shl(st.acc, frombits), value), Shl(1, frombits + tobits - 1) - 1),
              LAMBDA acc2 :
           Bind(Emit(acc2, st.bits + frombits, st.ret, tobits, Shl(1, tobits) - 1),
                LAMBDA e : [ok |-> TRUE, acc |-> acc2, bits |-> e[1], ret |-> e[2]]))

\* the loop over data[lo..hi]: the first half, then (unless None was returned) the second
RECURSIVE ConvertRange(_, _, _, _, _, _)
ConvertRange(st, data, lo, hi, frombits, tobits) ==
    IF lo > hi THEN st
    ELSE IF lo = hi THEN ConvertStep(st, data[lo], frombits, tobits)
    ELSE Bind(ConvertRange(st, data, lo, (lo + hi) \div 2, frombits, tobits),
              LAMBDA left :
                IF left.ok
                THEN ConvertRange(left, data, ((lo + hi) \div 2) + 1, hi, frombits, tobits)
                ELSE left)

\* returns [ok |-> FALSE] for None, else [ok |-> TRUE, bytes |-> ...]
_convertbits(data0, frombits, tobits, pad) ==
    Bind(data0, LAMBDA data :
    Bind(ConvertRange([ok |-> TRUE, acc |-> 0, bits |-> 0, ret |-> <<>>],
                      data, 1, Len(data), frombits, tobits),
         LAMBDA l :
           IF ~l.ok THEN [ok |-> FALSE]
           ELSE IF pad
                THEN [ok |-> TRUE,
                      bytes |-> IF l.bits # 0
                                THEN Append(l.ret, BitAnd(Shl(l.acc, tobits - l.bits),
                                                          Shl(1, tobits) - 1))
                                ELSE l.ret]
           ELSE IF l.bits >= frombits
                   \/ BitAnd(Shl(l.acc, tobits - l.bits), Shl(1, tobits) - 1) # 0
                THEN [ok |-> FALSE]
           ELSE [ok |-> TRUE, bytes |-> l.ret]))

Raise(msg) == [ok |-> FALSE, err |-> msg]

\* raises ValueError("Invalid bech32 string") / ("Invalid bech32 payload conversion")
_nip19_payload(bech32_str) ==
    Bind(_bech32_decode_to_words(bech32_str), LAMBDA d :
      IF ~d.ok THEN Raise("Invalid bech32 string")
      ELSE Bind(_convertbits(d.words, 5, 8, FALSE), LAMBDA b :
             IF ~b.ok THEN Raise("Invalid bech32 payload conversion")
             ELSE [ok |-> TRUE, hrp |-> d.hrp, payload |-> b.bytes]))

----------------------------------------------------------------------------
(* TLV parsing                                                             *)

\* dict.setdefault(t, []).append(v)
SetDefaultAppend(tlvs, t, v) ==
    IF t \in DOMAIN tlvs THEN [tlvs EXCEPT ![t] = Append(@, v)]
    ELSE [k \in DOMAIN tlvs \cup {t} |-> IF k = t THEN <<v>> ELSE tlvs[k]]

\* dict.get(t) or []
GetOrEmpty(tlvs, t) == IF t \in DOMAIN tlvs THEN tlvs[t] ELSE <<>>

\* payload[i:j] of Python (0-based, clipped, never raises)
Slice(payload, i, j) ==
    LET hi == IF j > Len(payload) THEN Len(payload) ELSE j
    IN  IF i >= hi THEN <<>> ELSE SubSeq(payload, i + 1, hi)

\* the condition of the while loop of _parse_tlvs
TlvLoopCond(i, n) == i + 2 <= n

\* a truncation test that also rejects a value ending exactly at the buffer's end
TlvTruncated_OffByOne(i, l, n) == i + l >= n

\* the truncation test "if i + l > len(payload): break", i already past the header
TlvTruncated(i, l, n) == i + l > n

\* the loop of _parse_tlvs from offset st[1] with the map st[2];
\* payload[k] outside 0..len-1 raises IndexError
RECURSIVE TlvLoop(_, _)
TlvLoop(payload, st) ==
    LET i == st[1]
        tlvs == st[2]
    IN  IF ~TlvLoopCond(i, Len(payload)) THEN [ok |-> TRUE, tlvs |-> tlvs]
        ELSE IF i + 1 >= Len(payload) THEN Raise("IndexError")
        ELSE IF TlvTruncated(i + 2, payload[i + 2], Len(payload))
             THEN [ok |-> TRUE, tlvs |-> tlvs]
        ELSE Bind(<<i + 2 + payload[i + 2],
                    SetDefaultAppend(tlvs, payload[i + 1],
                                     Slice(payload, i + 2, i + 2 + payload[i + 2]))>>,
                  LAMBDA next : TlvLoop(payload, next))

_parse_tlvs(payload0) ==
    Bind(payload0, LAMBDA payload : Bind(<<0, <<>>>>, LAMBDA st : TlvLoop(payload, st)))

----------------------------------------------------------------------------
(* bytes.decode("utf-8") and bytes.hex()                                   *)

IsCont(b) == b >= 128 /\ b <= 191

\* length of the well-formed UTF-8 sequence that starts at b[i] (1-based), 0 if none
Utf8SeqLen(b, i) ==
    LET n == Len(b)
        c == b[i]
        c2 == IF i + 1 <= n THEN b[i + 1] ELSE 0
        c3 == IF i + 2 <= n THEN b[i + 2] ELSE 0
        c4 == IF i + 3 <= n THEN b[i + 3] ELSE 0
    IN  IF c < 128 THEN 1
        ELSE IF c >= 194 /\ c <= 223 THEN (IF IsCont(c2) THEN 2 ELSE 0)
        ELSE IF c = 224 THEN (IF c2 >= 160 /\ c2 <= 191 /\ IsCont(c3) THEN 3 ELSE 0)
        ELSE IF c = 237 THEN (IF c2 >= 128 /\ c2 <= 159 /\ IsCont(c3) THEN 3 ELSE 0)
        ELSE IF c >= 225 /\ c <= 239 THEN (IF IsCont(c2) /\ IsCont(c3) THEN 3 ELSE 0)
        ELSE IF c = 240
             THEN (IF c2 >= 144 /\ c2 <= 191 /\ IsCont(c3) /\ IsCont(c4) THEN 4 ELSE 0)
        ELSE IF c >= 241 /\ c <= 243
             THEN (IF IsCont(c2) /\ IsCont(c3) /\ IsCont(c4) THEN 4 ELSE 0)
        ELSE IF c = 244
             THEN (IF c2 >= 128 /\ c2 <= 143 /\ IsCont(c3) /\ IsCont(c4) THEN 4 ELSE 0)
        ELSE 0

\* the code point of the well-formed sequence of length k at b[i]
Utf8CodePoint(b, i, k) ==
    IF k = 1 THEN b[i]
    ELSE IF k = 2 THEN (b[i] - 192) * 64 + (b[i + 1] - 128)
    ELSE IF k = 3 THEN (b[i] - 224) * 4096 + (b[i + 1] - 128) * 64 + (b[i + 2] - 128)
    ELSE (b[i] - 240) * 262144 + (b[i + 1] - 128) * 4096 + (b[i + 2] - 128) * 64
         + (b[i + 3] - 128)

\* decoding from position st[1] with the text st[2] decoded so far
RECURSIVE Utf8From(_, _)
Utf8From(b, st) ==
    IF st[1] > Len(b) THEN [ok |-> TRUE, text |-> st[2]]
    ELSE Bind(Utf8SeqLen(b, st[1]), LAMBDA k :
           IF k = 0 THEN [ok |-> FALSE, err |-> "UnicodeDecodeError"]
           ELSE Bind(<<st[1] + k, Append(st[2], Utf8CodePoint(b, st[1], k))>>,
                     LAMBDA next : Utf8From(b, next)))

\* bytes.decode("utf-8"): the text as code points, or UnicodeDecodeError
DecodeUtf8(b0) == Bind(b0, LAMBDA b : Bind(<<1, <<>>>>, LAMBDA st : Utf8From(b, st)))

\* "0123456789abcdef"
HexDigits == <<48, 49, 50, 51, 52, 53, 54, 55, 56, 57, 97, 98, 99, 100, 101, 102>>

\* bytes.hex()
Hex(b0) ==
    Bind(b0, LAMBDA b :
         [i \in 1..(2 * Len(b)) |->
            IF i % 2 = 1 THEN HexDigits[(b[(i + 1) \div 2] \div 16) + 1]
            ELSE HexDigits[(b[i \div 2] % 16) + 1]])

\* the loop "for r in ...: try: append(r.decode('utf-8')) except: continue"
RECURSIVE DecodeRelaysFrom(_, _)
DecodeRelaysFrom(rels_raw, st) ==
    IF st[1] > Len(rels_raw) THEN st[2]
    ELSE Bind(DecodeUtf8(rels_raw[st[1]]), LAMBDA d :
           Bind(<<st[1] + 1, IF d.ok THEN Append(st[2], d.text) ELSE st[2]>>,
                LAMBDA next : DecodeRelaysFrom(rels_raw, next)))

\* a loop that keeps every value as it is
DecodeRelays_KeepRaw(rels_raw0) == rels_raw0

DecodeRelays(rels_raw0) ==
    Bind(rels_raw0, LAMBDA rels_raw :
         Bind(<<1, <<>>>>, LAMBDA st : DecodeRelaysFrom(rels_raw, st)))

----------------------------------------------------------------------------
(* Input normalisation: _strip_wrappers and _find_candidate_token          *)

\* the alternatives of (n(sec|pub|profile|event|addr)|note), in pattern order:
\* "nsec", "npub", "nprofile", "nevent", "naddr", "note"
TokenPrefixes ==
    << <<110, 115, 101, 99>>,
       <<110, 112, 117, 98>>,
       <<110, 112, 114, 111, 102, 105, 108, 101>>,
       <<110, 101, 118, 101, 110, 116>>,
       <<110, 97, 100, 100, 114>>,
       <<110, 111, 116, 101>> >>

\* the class [0-9a-z], with re.I also A-Z
InBodyClass(c, ignorecase) == IsDigitCh(c) \/ IsLowerCh(c) \/ (ignorecase /\ IsUpperCh(c))

\* the class [0-9a-fA-F]
IsHexCh(c) == IsDigitCh(c) \/ (c >= 97 /\ c <= 102) \/ (c >= 65 /\ c <= 70)

\* last index k >= j - 1 such that s[j..k] all lie in the body class (greedy +)
BodyRunEnd(s, j, ignorecase) ==
    LET stop == {k \in j..Len(s) : ~InBodyClass(s[k], ignorecase)}
    IN  IF stop = {} THEN Len(s) ELSE (CHOOSE k \in stop : \A m \in stop : k <= m) - 1

\* end index of the match of (n(...)|note)1[0-9a-z]+ that starts at s[i], 0 if none
TokenMatchEnd(s, i, ignorecase) ==
    LET fits(p) == /\ i + Len(p) <= Len(s)
                   /\ (IF ignorecase THEN Lower(SubSeq(s, i, i + Len(p) - 1))
                       ELSE SubSeq(s, i, i + Len(p) - 1)) = p
                   /\ s[i + Len(p)] = 49
                   /\ BodyRunEnd(s, i + Len(p) + 1, ignorecase) >= i + Len(p) + 1
        hits == {k \in 1..Len(TokenPrefixes) : fits(TokenPrefixes[k])}
    IN  IF hits = {} THEN 0
        ELSE LET k == CHOOSE k \in hits : \A m \in hits : k <= m
             IN  BodyRunEnd(s, i + Len(TokenPrefixes[k]) + 1, ignorecase)

\* re.fullmatch(r"(n(sec|pub|profile|event|addr)|note)1[0-9a-z]+", last)
TokenFullMatch(last) == Len(last) > 0 /\ TokenMatchEnd(last, 1, FALSE) = Len(last)

\* first index at or after i of a character of cs in s, Len(s) + 1 if none
IndexFrom(s, cs, i) ==
    LET hits == {k \in i..Len(s) : s[k] \in cs}
    IN  IF hits = {} THEN Len(s) + 1 ELSE CHOOSE k \in hits : \A m \in hits : k <= m

\* "http", "https"
HTTP == <<104, 116, 116, 112>>
HTTPS == <<104, 116, 116, 112, 115>>

\* scheme characters of urllib.parse: letters, digits, "+", "-", "."
IsSchemeCh(c) == IsLowerCh(c) \/ IsUpperCh(c) \/ IsDigitCh(c) \/ c \in {43, 45, 46}

\* the path part of urlsplit / urlparse for the text after the netloc:
\* cut the fragment, then the query, then (http, https only) the ";params"
UrlPath(rest, scheme) ==
    Bind(SubSeq(rest, 1, IndexFrom(rest, {35}, 1) - 1), LAMBDA noFrag :
    Bind(SubSeq(noFrag, 1, IndexFrom(noFrag, {63}, 1) - 1), LAMBDA noQuery :
    Bind(RFind(noQuery, 47) + 1, LAMBDA lastSlash :
      IF scheme \in {HTTP, HTTPS}
      THEN SubSeq(noQuery, 1,
                  IndexFrom(noQuery, {59}, IF lastSlash = 0 THEN 1 ELSE lastSlash) - 1)
      ELSE noQuery)))

\* the netloc split of urlsplit for the text url after the scheme
UrlAfterScheme(url, scheme) ==
    IF Len(url) >= 2 /\ url[1] = 47 /\ url[2] = 47
    THEN Bind(IndexFrom(url, {47, 63, 35}, 3), LAMBDA delim :
         Bind(SubSeq(url, 3, delim - 1), LAMBDA netloc :
           IF (\E k \in 1..Len(netloc) : netloc[k] = 91)
                # (\E k \in 1..Len(netloc) : netloc[k] = 93)
           THEN [ok |-> FALSE]
           ELSE [ok |-> TRUE, scheme |-> scheme, netloc |-> netloc,
                 path |-> UrlPath(Drop(url, delim - 1), scheme)]))
    ELSE [ok |-> TRUE, scheme |-> scheme, netloc |-> <<>>, path |-> UrlPath(url, scheme)]

\* urlparse(s): [ok, scheme, netloc, path]; ok = FALSE for ValueError("Invalid IPv6 URL")
UrlParse(s) ==
    Bind(IndexFrom(s, {58}, 1), LAMBDA colon :
      IF /\ colon <= Len(s) /\ colon > 1
         /\ (IsLowerCh(s[1]) \/ IsUpperCh(s[1]))
         /\ \A k \in 1..(colon - 1) : IsSchemeCh(s[k])
      THEN Bind(Drop(s, colon), LAMBDA url :
                Bind(Lower(SubSeq(s, 1, colon - 1)), LAMBDA scheme :
                     UrlAfterScheme(url, scheme)))
      ELSE UrlAfterScheme(s, <<>>))

\* str.rstrip("/")
RStripSlash(s) ==
    LET keep == {k \in 1..Len(s) : s[k] # 47}
    IN  IF keep = {} THEN <<>> ELSE SubSeq(s, 1, CHOOSE k \in keep : \A m \in keep : k >= m)

\* os.path.basename
Basename(p) == Drop(p, RFind(p, 47) + 1)

_strip_wrappers(s0) ==
    Bind(Strip(s0), LAMBDA s1 :
      IF s1 = <<>> THEN s1
      ELSE Bind(IF StartsWith(Lower(s1), NOSTR_COLON) THEN Drop(s1, 6) ELSE s1, LAMBDA s :
           Bind(UrlParse(s), LAMBDA u :
             IF u.ok /\ u.scheme \in {HTTP, HTTPS} /\ u.path # <<>>
             THEN Bind(Basename(RStripSlash(u.path)), LAMBDA last :
                       IF TokenFullMatch(last) THEN last ELSE s)
             ELSE s)))

\* re.search of the token pattern with re.I: the leftmost match, [start, end] or <<0, 0>>
TokenSearch(s) ==
    LET starts == {i \in 1..Len(s) : TokenMatchEnd(s, i, TRUE) # 0}
    IN  IF starts = {} THEN <<0, 0>>
        ELSE LET i == CHOOSE i \in starts : \A j \in starts : i <= j
             IN  <<i, TokenMatchEnd(s, i, TRUE)>>

\* re.search(r"[0-9a-fA-F]{64}", s): start of the leftmost match, 0 if none
HexSearch(s) ==
    LET starts == {i \in 1..(Len(s) - 63) : \A k \in i..(i + 63) : IsHexCh(s[k])}
    IN  IF starts = {} THEN 0 ELSE CHOOSE i \in starts : \A j \in starts : i <= j

\* a search that looks for 64 hex digits first
_find_candidate_token_HexFirst(s0) ==
    Bind(Strip(s0), LAMBDA s :
    Bind(HexSearch(s), LAMBDA m2 :
      IF m2 # 0 THEN Lower(SubSeq(s, m2, m2 + 63))
      ELSE Bind(TokenSearch(s), LAMBDA m :
             IF m[1] # 0 THEN SubSeq(s, m[1], m[2]) ELSE s)))

_find_candidate_token(s0) ==
    Bind(Strip(s0), LAMBDA s :
    Bind(TokenSearch(s), LAMBDA m :
      IF m[1] # 0 THEN SubSeq(s, m[1], m[2])
      ELSE Bind(HexSearch(s), LAMBDA m2 :
             IF m2 # 0 THEN Lower(SubSeq(s, m2, m2 + 63)) ELSE s)))

----------------------------------------------------------------------------
(* Identifier reconstruction: decode_nprofile, decode_naddr                *)

\* a guard on TLV 0 that forgets the length of the value
NprofilePubkeyMissing_NoLength(pk_items) == pk_items = <<>>

\* the guard on TLV 0 of decode_nprofile: "not pk_items or len(pk_items[0]) != 32"
NprofilePubkeyMissing(pk_items) == pk_items = <<>> \/ Len(pk_items[1]) # 32

decode_nprofile(nprofile) ==
    Bind(_find_candidate_token(_strip_wrappers(nprofile)), LAMBDA s :
      IF ~StartsWith(Lower(s), NPROFILE1) THEN Raise("Not an nprofile")
      ELSE Bind(_nip19_payload(Lower(s)), LAMBDA p :
        IF ~p.ok THEN Raise(p.err)
        ELSE IF p.hrp # HRP_NPROFILE THEN Raise("Invalid nprofile bech32")
        ELSE Bind(_parse_tlvs(p.payload), LAMBDA t :
          IF ~t.ok THEN Raise(t.err)
          ELSE Bind(GetOrEmpty(t.tlvs, 0), LAMBDA pk_items :
            IF NprofilePubkeyMissing(pk_items)
            THEN Raise("nprofile missing pubkey (TLV 0 len 32)")
            ELSE [ok |-> TRUE,
                  pk_hex |-> Hex(pk_items[1]),
                  relays |-> DecodeRelays(GetOrEmpty(t.tlvs, 1))]))))

\* the natural number a byte string spells, most significant byte first
RECURSIVE BytesNat(_)
BytesNat(b) ==
    IF b = <<>> THEN 0 ELSE 256 * BytesNat(SubSeq(b, 1, Len(b) - 1)) + b[Len(b)]

\* int.from_bytes(b, "big", signed=False).  A Python int has no width; the value
\* is held as hi * 2^16 + lo with lo the last two bytes, because a kind from
\* 2^31 upwards does not fit one integer of the model checker.
IntFromBytesBig(b) ==
    [hi |-> BytesNat(SubSeq(b, 1, Len(b) - 2)),
     lo |-> BytesNat(SubSeq(b, IF Len(b) > 2 THEN Len(b) - 1 ELSE 1, Len(b)))]

\* a guard on TLV 3 that forgets the length of the value
NaddrKindMissing_NoLength(kinds) == kinds = <<>>

\* the guard on TLV 3 of decode_naddr: "not kinds or len(kinds[0]) != 4"
NaddrKindMissing(kinds) == kinds = <<>> \/ Len(kinds[1]) # 4

\* the fields of an naddr from its TLV map (lines after _parse_tlvs in decode_naddr)
NaddrFields(tlvs) ==
    Bind(GetOrEmpty(tlvs, 0), LAMBDA ids :
      IF ids = <<>> THEN Raise("naddr missing identifier (TLV 0)")
      ELSE Bind(DecodeUtf8(ids[1]), LAMBDA ident :
        IF ~ident.ok THEN Raise("naddr identifier (TLV 0) is not valid UTF-8")
        ELSE Bind(GetOrEmpty(tlvs, 2), LAMBDA authors :
          IF authors = <<>> \/ Len(authors[1]) # 32
          THEN Raise("naddr missing author pubkey (TLV 2 len 32)")
          ELSE Bind(GetOrEmpty(tlvs, 3), LAMBDA kinds :
            IF NaddrKindMissing(kinds)
            THEN Raise("naddr missing kind (TLV 3 len 4)")
            ELSE [ok |-> TRUE,
                  kind |-> IntFromBytesBig(kinds[1]),
                  pk_hex |-> Hex(authors[1]),
                  ident |-> ident.text,
                  relays |-> DecodeRelays(GetOrEmpty(tlvs, 1))]))))

\* a prefix check that accepts every prefix
NaddrHrpMismatch_Never(hrp) == FALSE

\* "if hrp != 'naddr'" of decode_naddr
NaddrHrpMismatch(hrp) == hrp # HRP_NADDR

decode_naddr(naddr) ==
    Bind(_find_candidate_token(_strip_wrappers(naddr)), LAMBDA s :
      IF ~StartsWith(Lower(s), NADDR1) THEN Raise("Not an naddr")
      ELSE Bind(_nip19_payload(Lower(s)), LAMBDA p :
        IF ~p.ok THEN Raise(p.err)
        ELSE IF NaddrHrpMismatch(p.hrp) THEN Raise("Invalid naddr bech32")
        ELSE Bind(_parse_tlvs(p.payload), LAMBDA t :
          IF ~t.ok THEN Raise(t.err) ELSE NaddrFields(t.tlvs))))

----------------------------------------------------------------------------
(* Inputs of the codec functions.  Tokens are produced by the forward      *)
(* bech32 encoding of a TLV record list, so that every decoder input is a  *)
(* text whose intended content is known.                                   *)

Rep(b, n) == [i \in 1..n |-> b]

MaxBufLen == 6
MaxRecs == 2

\* byte values of the raw TLV buffers: types / lengths 0, 1, 2 and 255
BufBytes == {0, 1, 2, 255}

RECURSIVE SeqsUpTo(_, _)
SeqsUpTo(S, n) ==
    IF n = 0 THEN {<<>>}
    ELSE Bind(SeqsUpTo(S, n - 1), LAMBDA shorter :
              shorter \cup {Append(q, x) : q \in {r \in shorter : Len(r) = n - 1}, x \in S})

\* the buffer of test_parse_tlvs_simple: 00 03 "abc" 02 20 <32 x 01>
TlvTestPayload == <<0, 3, 97, 98, 99, 2, 32>> \o Rep(1, 32)

Buffers(n) == SeqsUpTo(BufBytes, n) \cup {TlvTestPayload}

\* TLV records an nprofile input is assembled from: <<type, value>>
\* "wss://a.io", "wss://c.io" and a byte string that is not UTF-8
RelayA == <<119, 115, 115, 58, 47, 47, 97, 46, 105, 111>>
RelayC == <<119, 115, 115, 58, 47, 47, 99, 46, 105, 111>>
NotUtf8 == <<119, 255, 115>>
ProfileRecs ==
    { <<0, Rep(1, 32)>>, <<0, Rep(171, 32)>>, <<0, Rep(1, 31)>>,
      <<1, RelayA>>, <<1, RelayC>>, <<1, NotUtf8>>, <<2, Rep(2, 32)>> }

RECURSIVE EncodeTlvs(_)
EncodeTlvs(recs) ==
    IF recs = <<>> THEN <<>>
    ELSE <<recs[1][1], Len(recs[1][2])>> \o recs[1][2] \o EncodeTlvs(Tail(recs))

\* forward bech32 encoding (BIP-173) of 5-bit words under prefix hrp
Bech32EncodeWords(hrp, words) ==
    Bind(words, LAMBDA data :
    Bind(BitXor(_bech32_polymod(_bech32_hrp_expand(hrp) \o data \o Rep(0, 6)), 1), LAMBDA pm :
    Bind(data \o [i \in 1..6 |-> BitAnd(Shr(pm, 5 * (6 - i)), 31)], LAMBDA all :
         hrp \o <<49>> \o [i \in 1..Len(all) |-> _BECH32_CHARSET[all[i] + 1]])))

\* forward bech32 encoding of a byte payload under prefix hrp
Bech32Encode(hrp, payload) == Bech32EncodeWords(hrp, _convertbits(payload, 8, 5, TRUE).bytes)

\* ways a token reaches the decoder
\* "https://njump.me/"
UrlPrefix == <<104, 116, 116, 112, 115, 58, 47, 47, 110, 106, 117, 109, 112, 46, 109, 101, 47>>
Wrappers == {"plain", "nostr", "url", "upper", "corrupt"}

\* replace the last character by another charset character: breaks the checksum
Corrupt(t) == [t EXCEPT ![Len(t)] = IF @ = 113 THEN 112 ELSE 113]

Wrap(t, w) ==
    IF w = "nostr" THEN NOSTR_COLON \o t
    ELSE IF w = "url" THEN UrlPrefix \o t
    ELSE IF w = "upper" THEN Upper(t)
    ELSE IF w = "corrupt" THEN Corrupt(t)
    ELSE t

\* The inputs of the bech32 decoder: the encoding of at most n words under a
\* prefix of letters, a prefix that holds a '1', and a prefix of digits, left as
\* it is or changed in one way:
\*   upper    every letter in upper case
\*   mixed    the prefix in upper case, the rest in lower case
\*   space    the first character replaced by a space (32)
\*   del      the last character replaced by DEL (127)
\*   badchar  the last character replaced by 'b', which is not in the alphabet
\*   short    cut after the fifth character that follows the separator
\*   nosep    without the prefix and the separator
\*   corrupt  the last character replaced by another character of the alphabet
MaxWords == 4
WordValues == {0, 4, 31}
\* "a", "n1p", "72"
Bech32Hrps == {<<97>>, <<110, 49, 112>>, <<55, 50>>}
Bech32Variants ==
    {"plain", "upper", "mixed", "space", "del", "badchar", "short", "nosep", "corrupt"}

Vary(t, hrp, v) ==
    IF v = "upper" THEN Upper(t)
    ELSE IF v = "mixed" THEN Upper(hrp) \o Drop(t, Len(hrp))
    ELSE IF v = "space" THEN [t EXCEPT ![1] = 32]
    ELSE IF v = "del" THEN [t EXCEPT ![Len(t)] = 127]
    ELSE IF v = "badchar" THEN [t EXCEPT ![Len(t)] = 98]
    ELSE IF v = "short" THEN SubSeq(t, 1, Len(hrp) + 6)
    ELSE IF v = "nosep" THEN Drop(t, Len(hrp) + 1)
    ELSE IF v = "corrupt" THEN Corrupt(t)
    ELSE t

Bech32Inputs(n) ==
    UNION {Bind(Bech32EncodeWords(hw[1], hw[2]), LAMBDA t :
                {[hrp |-> hw[1], words |-> hw[2], variant |-> v, text |-> Vary(t, hw[1], v)] :
                   v \in Bech32Variants}) :
           hw \in Bech32Hrps \X SeqsUpTo(WordValues, n)}

\* The inputs of the substitution experiment: the encoding of at most n words,
\* in lower or upper case, together with one position of its data portion and
\* a character that differs from the one at that position.  "72195k28768"
\* (prefix "72", words 5, 20) is an encoding with a single letter.
MaxSubstWords == 2
\* 'q', 'l', '9', 'Q', 'b', '1', ' '
SubstChars == {113, 108, 57, 81, 98, 49, 32}

SubstOriginals(n) ==
    UNION {Bind(Bech32EncodeWords(hw[1], hw[2]), LAMBDA t :
                {[hrp |-> hw[1], words |-> hw[2], text |-> Vary(t, hw[1], v)] :
                   v \in {"plain", "upper"}}) :
           hw \in (Bech32Hrps \X SeqsUpTo(WordValues, n)) \cup {<< <<55, 50>>, <<5, 20>> >>}}

SubstAt(o, i) ==
    {[hrp |-> o.hrp, words |-> o.words, text |-> o.text, pos |-> i, ch |-> c,
      subst |-> [o.text EXCEPT ![i] = c]] :
       c \in (SubstChars \cup {LowerCh(o.text[i]), UpperCh(o.text[i])}) \ {o.text[i]}}

SubstInputs(n) ==
    UNION {UNION {SubstAt(o, i) : i \in (Len(o.hrp) + 2)..Len(o.text)} :
           o \in SubstOriginals(n)}

\* The inputs of _find_candidate_token: at most n words with a blank between
\* them, with or without blanks around the whole.  A word is
\*   64 hex digits in both cases, 65 hex digits in upper case,
\*   "note1q9", "NPUB1XY", 64 hex digits with "naddr1zz" right behind them,
\*   "hi!", or 63 hex digits.
\* kind says what the word holds and want what the search should find in it.
MaxWordsInText == 2
Word(kind, text, want) == [kind |-> kind, text |-> text, want |-> want]
TextWords ==
    { Word("hex", Rep(65, 32) \o Rep(98, 32), Rep(97, 32) \o Rep(98, 32)),
      Word("hex", Rep(69, 65), Rep(101, 64)),
      Word("token", <<110, 111, 116, 101, 49, 113, 57>>, <<110, 111, 116, 101, 49, 113, 57>>),
      Word("token", <<78, 80, 85, 66, 49, 88, 89>>, <<78, 80, 85, 66, 49, 88, 89>>),
      Word("token", Rep(100, 64) \o <<110, 97, 100, 100, 114, 49, 122, 122>>, <<110, 97, 100, 100, 114, 49, 122, 122>>),
      Word("none", <<104, 105, 33>>, <<>>),
      Word("none", Rep(99, 63), <<>>) }

RECURSIVE JoinWords(_)
JoinWords(ws) ==
    IF ws = <<>> THEN <<>>
    ELSE IF Len(ws) = 1 THEN ws[1].text
    ELSE ws[1].text \o <<32>> \o JoinWords(Tail(ws))

TextInputs(n) ==
    {[words |-> ws, text |-> pad \o JoinWords(ws) \o pad] :
       ws \in SeqsUpTo(TextWords, n), pad \in {<<>>, <<32, 9>>}}

\* a public key with two relays and an undecodable value between them
ProfileThreeHints == << <<0, Rep(1, 32)>>, <<1, RelayC>>, <<1, NotUtf8>>, <<1, RelayA>> >>

\* the inputs of decode_nprofile: every list of at most n records and the list
\* above, wrapped every way
ProfileInputs(n) ==
    UNION {Bind(Bech32Encode(HRP_NPROFILE, EncodeTlvs(r)), LAMBDA t :
                {[recs |-> r, wrap |-> w, text |-> Wrap(t, w)] : w \in Wrappers}) :
           r \in SeqsUpTo(ProfileRecs, n) \cup {ProfileThreeHints}}

----------------------------------------------------------------------------
(* http_request: exceptions, transport outcomes, retry policy              *)

\* an exception value: its class and, for an HTTP failure, the status it carries
Exc(type, code) == [type |-> type, code |-> code]
NoException == Exc("None", 0)

\* what a step produced: nothing yet, a response, or a raised exception
NoOutcome == [kind |-> "none", status |-> 0, exc |-> NoException]
InFlight == [kind |-> "in_flight", status |-> 0, exc |-> NoException]
Response(status) == [kind |-> "response", status |-> status, exc |-> NoException]
Returned(status) == [kind |-> "return", status |-> status, exc |-> NoException]
Raised(e) == [kind |-> "raise", status |-> 0, exc |-> e]

\* what the server does with one request: it answers with a status, or the
\* connection fails and there is no answer
NoAnswer == 0
Statuses == {200, 204, 404, 429, 500}
Answers == Statuses \cup {NoAnswer}

\* the two bindings of the name urlopen: urllib.request.urlopen, and the
\* replacement installed by test_http_request_retry_then_success
Openers == {"urllib", "patched"}

\* urlopen(req, timeout=60) for a given server answer.  urllib.request.urlopen
\* raises URLError when the connection fails and HTTPError for every final
\* status outside 200..299; the test replacement hands back whatever status
\* the fake server gave.
urlopen(op, answer) ==
    IF answer = NoAnswer THEN Raised(Exc("URLError", 0))
    ELSE IF op = "urllib" /\ ~(answer >= 200 /\ answer < 300)
         THEN Raised(Exc("HTTPError", answer))
    ELSE Response(answer)

Methods == {"GET", "POST"}
MaxRetries == 3
DEFAULT_MAX_RETRIES == 3

\* a loop condition that allows one attempt too many
LoopCond_Inclusive(a, m) == a <= m

\* "while attempt < max_retries"
LoopCond(a, m) == a < m

\* a status test that lets status 500 through
ShouldRetryStatus_Above500(status) == status > 500 \/ status = 429

\* "if resp.status_code >= 500 or resp.status_code == 429"
ShouldRetryStatus(status) == status >= 500 \/ status = 429

\* the try body after "resp = await asyncio.to_thread(_do)": an exception of _do
\* propagates, a retry status raises RuntimeError(f"HTTP {status}"), else return resp
AttemptResult(outcome) ==
    IF outcome.kind = "raise" THEN outcome
    ELSE IF ShouldRetryStatus(outcome.status)
         THEN Raised(Exc("RuntimeError", outcome.status))
    ELSE Returned(outcome.status)

\* a coroutine that starts the thread and goes on without waiting for it
AfterToThread_NoAwait == "resume"

\* "resp = await asyncio.to_thread(_do)": _do runs in a worker thread and the
\* coroutine stays at the await until the thread has finished
AfterToThread == "in_thread"

\* a sleep that is left out after the last attempt
SleepsAfterFailure_NotLast(a, mr) == a + 1 < mr

\* the except clause sleeps whatever the attempt number: "await asyncio.sleep(...)"
\* stands there without a condition
SleepsAfterFailure(a, mr) == TRUE

\* a backoff that does not grow
BackoffMs_Constant(a) == 500

\* "(2 ** attempt) * 0.5" seconds, in milliseconds
BackoffMs(a) == (2^a) * 500

\* "raise last_exc if last_exc else RuntimeError("HTTP request failed")"
ExhaustedException(e) == IF e # NoException THEN e ELSE Exc("RuntimeError", 0)

----------------------------------------------------------------------------
(* parse_or_resolve_event_id and resolve_naddr_to_event_id: values         *)

\* one entry of the log of steps: the step, its argument, whether it succeeded
Ev(op, arg, ok) == [op |-> op, arg |-> arg, ok |-> ok]

\* the operations on a relay client
NetworkOps == {"Client", "add_relay", "connect", "fetch_events", "disconnect"}

NoClient == [created |-> FALSE, tried |-> 0, added |-> <<>>, connected |-> FALSE]
NoResult == [kind |-> "none", err |-> "", id |-> <<>>]
ReturnId(id) == [kind |-> "return", err |-> "", id |-> id]
RaiseErr(msg) == [kind |-> "raise", err |-> msg, id |-> <<>>]

\* an event a relay returns, and Event.id().to_hex()
Event(n) == [id |-> Rep(n, 32)]
IdHex(e) == Hex(e.id)

\* a dispatch test that sends every "n..." token to the resolver
DispatchToResolver_AnyN(t) == StartsWith(Lower(t), <<110>>)

\* "if tok.lower().startswith("naddr1")" of parse_or_resolve_event_id
DispatchToResolver(t) == StartsWith(Lower(t), NADDR1)

\* a relay choice that adds the caller's relays after the embedded ones
ChooseRelays_Both(embedded_relays, fallback) == embedded_relays \o fallback

\* "relays = embedded_relays or relay_urls"
ChooseRelays(embedded_relays, fallback) ==
    IF embedded_relays # <<>> THEN embedded_relays ELSE fallback

\* a decode whose failure does not stop the call
AfterFields_Always(f) == "client"

\* decode_naddr raised, or returned and resolve_naddr_to_event_id goes on
AfterFields(f) == IF f.ok THEN "client" ELSE "done"

\* a connect fault that is answered by connecting again
OnConnectFault_Retry == "connect"

\* an exception inside the try block leaves through the finally clause
OnConnectFault == "finally"

\* what the value returned by fetch_events allows: as_vec() that works, as_vec()
\* that raises, no as_vec but iteration works, no as_vec and list(events) raises
EventsShapes == {"as_vec", "as_vec_raises", "iterable", "opaque"}

\* lines 924-934: the list of the events, or [] when the conversion raises
NormalizeEvents(events, shape) ==
    IF shape \in {"as_vec", "iterable"} THEN events ELSE <<>>

NoEventFound == "No event found for naddr on provided relays"
UnsupportedFormat == "Unsupported event id format (need hex/note/nevent/URI)"

----------------------------------------------------------------------------
(* Inputs of parse_or_resolve_event_id                                     *)

MaxHints == 2
MaxFallback == 2
MaxEvents == 2

\* "note", "nevent", "npub"
HRP_NOTE == <<110, 111, 116, 101>>
HRP_NEVENT == <<110, 101, 118, 101, 110, 116>>
HRP_NPUB == <<110, 112, 117, 98>>

\* TLV records of an naddr: identifier "d1", author, kind 30000, a 3-byte kind
IdRec == <<0, <<100, 49>>>>
AuthorRec == <<2, Rep(3, 32)>>
KindRec == <<3, <<0, 0, 117, 48>>>>
ShortKindRec == <<3, <<0, 117, 48>>>>

HintValues == {RelayA, NotUtf8}
NaddrBases == {"full", "no_id", "no_author", "no_kind", "short_kind"}

NaddrRecs(base, hints) ==
    (IF base # "no_id" THEN <<IdRec>> ELSE <<>>)
    \o [i \in 1..Len(hints) |-> <<1, hints[i]>>]
    \o (IF base # "no_author" THEN <<AuthorRec>> ELSE <<>>)
    \o (IF base = "no_kind" THEN <<>>
        ELSE IF base = "short_kind" THEN <<ShortKindRec>> ELSE <<KindRec>>)

NaddrWrappers == {"plain", "nostr", "upper", "corrupt"}

\* every naddr of a base and at most n relay hints, wrapped
NaddrInputs(n) ==
    UNION {Bind(NaddrRecs(bh[1], bh[2]), LAMBDA r :
           Bind(Bech32Encode(HRP_NADDR, EncodeTlvs(r)), LAMBDA t :
                {[label |-> "naddr", recs |-> r, wrap |-> w, text |-> Wrap(t, w)] :
                   w \in NaddrWrappers})) :
           bh \in NaddrBases \X SeqsUpTo(HintValues, n)}

\* inputs that are not an naddr: 64 hex digits, note, nevent, npub, nprofile,
\* "hello", the empty text, and "naddr1zzz", which only looks like an naddr
LocalSamples ==
    { [label |-> "hex", text |-> Rep(97, 64)],
      [label |-> "note", text |-> Bech32Encode(HRP_NOTE, Rep(7, 32))],
      [label |-> "nevent", text |-> Bech32Encode(HRP_NEVENT, EncodeTlvs(<< <<0, Rep(7, 32)>> >>))],
      [label |-> "npub", text |-> Bech32Encode(HRP_NPUB, Rep(1, 32))],
      [label |-> "nprofile",
       text |-> Bech32Encode(HRP_NPROFILE, EncodeTlvs(<< <<0, Rep(1, 32)>>, <<1, RelayA>> >>))],
      [label |-> "text", text |-> <<104, 101, 108, 108, 111>>],
      [label |-> "empty", text |-> <<>>],
      [label |-> "naddr_like", text |-> <<110, 97, 100, 100, 114, 49, 122, 122, 122>>] }

LocalInputs(S) ==
    {[label |-> x.label, recs |-> <<>>, wrap |-> w, text |-> Wrap(x.text, w)] :
       x \in S, w \in {"plain", "nostr", "url"}}

ResolveInputs(n) == NaddrInputs(n) \cup LocalInputs(LocalSamples)

\* The inputs of decode_naddr.  Each of the three mandatory fields is drawn from
\* the ways it can be right or wrong: the identifier absent, "d1", empty, not
\* UTF-8; the author absent, 32 bytes, 31 bytes; the kind absent, 30000 in 4
\* bytes, 2^32 - 1, 3 bytes, 5 bytes, 0 bytes, and a 4-byte value followed by a
\* 3-byte one.
AddrIdChoices == {<<>>, <<IdRec>>, << <<0, <<>>>> >>, << <<0, NotUtf8>> >>}
AddrAuthorChoices == {<<>>, <<AuthorRec>>, << <<2, Rep(3, 31)>> >>}
AddrKindChoices ==
    { <<>>, <<KindRec>>, <<ShortKindRec>>, << <<3, <<255, 255, 255, 255>>>> >>,
      << <<3, <<0, 0, 0, 117, 48>>>> >>, << <<3, <<>>>> >>, <<KindRec, ShortKindRec>> }
AddrHintValues == {RelayA, RelayC, NotUtf8}

\* "naddr1x": a prefix that starts like "naddr1" and is not "naddr"
HRP_NADDR1X == <<110, 97, 100, 100, 114, 49, 120>>

\* two relays with an undecodable value between them
ThreeHints == <<RelayC, NotUtf8, RelayA>>

AddrRecs(ids, hints, authors, kinds) ==
    ids \o [i \in 1..Len(hints) |-> <<1, hints[i]>>] \o authors \o kinds

AddrTokens(hrp, r) ==
    Bind(Bech32Encode(hrp, EncodeTlvs(r)), LAMBDA t :
         {[hrp |-> hrp, recs |-> r, wrap |-> w, text |-> Wrap(t, w)] :
            w \in {"plain", "corrupt"}})

\* every combination of the three fields without relay hints, every list of at
\* most n hints around fields that are right, and a complete record list under
\* two other prefixes
AddrInputs(n) ==
    UNION {AddrTokens(HRP_NADDR, AddrRecs(c[1], <<>>, c[2], c[3])) :
             c \in AddrIdChoices \X AddrAuthorChoices \X AddrKindChoices}
    \cup UNION {AddrTokens(HRP_NADDR, AddrRecs(c[1], c[2], <<AuthorRec>>, <<KindRec>>)) :
                  c \in {<<IdRec>>, << <<0, <<>>>> >>} \X SeqsUpTo(AddrHintValues, n)}
    \cup UNION {AddrTokens(h, <<IdRec, <<1, RelayA>>, AuthorRec, KindRec>>) :
                  h \in {HRP_NADDR1X, HRP_NPROFILE}}
    \cup AddrTokens(HRP_NADDR, AddrRecs(<<IdRec>>, ThreeHints, <<AuthorRec>>, <<KindRec>>))

NoInput == [label |-> "none", recs |-> <<>>, wrap |-> "plain", text |-> <<>>]

----------------------------------------------------------------------------
(* fetch_relay_min_pow and convert_ws_to_http                              *)

\* "wss", "ws", "://"
WSS == <<119, 115, 115>>
WS == <<119, 115>>
COLON_SLASHES == <<58, 47, 47>>

\* Optional[str]: None, or a text
NoneUrl == [ok |-> FALSE, url |-> <<>>]
SomeUrl(u) == [ok |-> TRUE, url |-> u]

\* a conversion that hands every URL back
convert_ws_to_http_Identity(url) == SomeUrl(url)

\* an exception of urlparse is caught and gives None
convert_ws_to_http(url) ==
    Bind(UrlParse(url), LAMBDA p :
      IF ~p.ok THEN NoneUrl
      ELSE IF p.scheme = WSS THEN SomeUrl(HTTPS \o COLON_SLASHES \o p.netloc \o p.path)
      ELSE IF p.scheme = WS THEN SomeUrl(HTTP \o COLON_SLASHES \o p.netloc \o p.path)
      ELSE IF p.scheme \in {HTTPS, HTTP} THEN SomeUrl(url)
      ELSE NoneUrl)

\* "if not http": None or the empty text
NotHttp(http) == ~http.ok \/ http.url = <<>>

keys_to_check ==
    <<"min_pow_difficulty", "minPoW", "minPoWDifficulty", "pow", "pow_difficulty",
      "required_pow", "min_difficulty", "difficulty">>

\* JSON values as json.loads gives them.  A scalar has a type and, for int and
\* bool, its number (True is 1, False is 0: bool is a subclass of int); an
\* object is a function from the names of its members.
JInt(n) == [t |-> "int", n |-> n]
JBool(n) == [t |-> "bool", n |-> n]
JStr == [t |-> "str", n |-> 0]
JFloat == [t |-> "float", n |-> 0]
NoScalar == [t |-> "None", n |-> 0]
JObject(fields) == [t |-> "dict", fields |-> fields]
JNull == [t |-> "None", fields |-> <<>>]
JNumber == [t |-> "int", fields |-> <<>>]
JArray == [t |-> "list", fields |-> <<>>]
EmptyDict == JObject(<<>>)

\* bool(x) of Python for the values above: None and {} are false, 7 is true
Truthy(x) == (x.t = "dict" /\ DOMAIN x.fields # {}) \/ x.t = "int"

\* dict.get(k) on an object whose members are sub-values / scalars
GetMember(obj, k) == IF k \in DOMAIN obj.fields THEN obj.fields[k] ELSE JNull
GetScalar(obj, k) == IF k \in DOMAIN obj.fields THEN obj.fields[k] ELSE NoScalar

\* a choice that looks at "limits" first
SelectLim_LimitsFirst(info) ==
    Bind(GetMember(info, "limits"), LAMBDA b :
      IF Truthy(b) THEN b
      ELSE Bind(GetMember(info, "limitation"), LAMBDA a :
             IF Truthy(a) THEN a ELSE EmptyDict))

\* info.get("limitation") or info.get("limits") or {}
SelectLim(info) ==
    Bind(GetMember(info, "limitation"), LAMBDA a :
      IF Truthy(a) THEN a
      ELSE Bind(GetMember(info, "limits"), LAMBDA b :
             IF Truthy(b) THEN b ELSE EmptyDict))

\* Optional[int]: None, or a number
NoPow == [some |-> FALSE, n |-> 0]
SomePow(n) == [some |-> TRUE, n |-> n]

\* isinstance(v, int)
IsInstanceInt(v) == v.t \in {"int", "bool"}

\* the loop "for k in keys_to_check" from key number i on, best so far given
RECURSIVE BestFrom(_, _, _)
BestFrom(lim, i, best) ==
    IF i > Len(keys_to_check) THEN best
    ELSE Bind(GetScalar(lim, keys_to_check[i]), LAMBDA v :
           BestFrom(lim, i + 1,
                    IF IsInstanceInt(v)
                    THEN (IF ~best.some THEN SomePow(v.n)
                          ELSE SomePow(IF best.n >= v.n THEN best.n ELSE v.n))
                    ELSE best))

\* a status check that lets every status through
StatusNot200_Never(status_code) == FALSE

\* "if resp.status_code != 200"
StatusNot200(status_code) == status_code # 200

\* the entry a relay starts with
Entry(url) == [url |-> url, reachable |-> FALSE, min_pow |-> NoPow, forced |-> FALSE]

\* a handler that lets the exception leave the loop
Swallowed_Never == FALSE

\* except Exception: pass -- whatever the try block raised is dropped
Swallowed == TRUE

\* the body of the try block after http_request has answered: the entry, the
\* new max_pow and whether the block raised.  An exception (from http_request,
\* from resp.json(), from .get on a value that is not a dict) leaves the entry
\* as it started.
AfterAnswer(entry, ans, mp) ==
    IF ans.kind = "raise" THEN <<entry, mp, TRUE>>
    ELSE IF StatusNot200(ans.status) THEN <<entry, mp, FALSE>>
    ELSE IF ans.content = "garbage" THEN <<entry, mp, TRUE>>
    ELSE Bind(IF ans.content = "empty" THEN EmptyDict ELSE ans.info, LAMBDA info :
      IF info.t # "dict" THEN <<entry, mp, TRUE>>
      ELSE Bind(SelectLim(info), LAMBDA lim :
        IF lim.t # "dict" THEN <<entry, mp, TRUE>>
        ELSE Bind(BestFrom(lim, 1, NoPow), LAMBDA best :
               <<[entry EXCEPT !.reachable = TRUE, !.min_pow = best],
                 IF best.some /\ best.n > mp THEN best.n ELSE mp, FALSE>>)))

\* a marking that forces every entry that has a value
Forced_AnyValue(min_pow, mp) == min_pow.some

\* e.get("min_pow") == max_pow and isinstance(e.get("min_pow"), int)
Forced(min_pow, mp) == min_pow.some /\ min_pow.n = mp

\* a difficulty that ignores what the relays advertise
Chosen_DefaultOnly(d, mp) == d

\* chosen = max(DEFAULT_POW, max_pow or 0)
Chosen(d, mp) ==
    Bind(IF mp # 0 THEN mp ELSE 0, LAMBDA m : IF d >= m THEN d ELSE m)

\* values of DEFAULT_POW = int(os.getenv("SCRUTINY_POW", "10")): the default,
\* and a setting below zero
DefaultPows == {10, -1}

NoPowResult == [done |-> FALSE, raised |-> FALSE, max_pow |-> 0, diag |-> <<>>]

----------------------------------------------------------------------------
(* Inputs of fetch_relay_min_pow                                           *)

MaxRelays == 2

\* "a.io", "/x", "?q", "foo", "WSS", "wss://[a.io", "a.io/x"
HostA == <<97, 46, 105, 111>>
PathX == <<47, 120>>
QueryQ == <<63, 113>>
FOO == <<102, 111, 111>>
WSS_UPPER == <<87, 83, 83>>

\* a URL with the parts it was written from: the scheme in lower case (or
\* "other"), the host, the path
Url(kind, scheme, host, path, tail) ==
    [kind |-> kind, host |-> host, path |-> path,
     text |-> scheme \o COLON_SLASHES \o host \o path \o tail]

UrlSamples ==
    { Url("wss", WSS, HostA, <<>>, <<>>), Url("wss", WSS, HostA, PathX, <<>>),
      Url("wss", WSS, HostA, PathX, QueryQ), Url("wss", WSS_UPPER, HostA, PathX, <<>>),
      Url("ws", WS, HostA, <<>>, <<>>), Url("ws", WS, HostA, PathX, <<>>),
      Url("https", HTTPS, HostA, PathX, <<>>), Url("http", HTTP, HostA, <<>>, <<>>),
      Url("other", FOO, HostA, <<>>, <<>>),
      Url("other", WSS, <<91>> \o HostA, <<>>, <<>>),
      [kind |-> "other", host |-> <<>>, path |-> HostA, text |-> HostA] }

\* sub-objects a relay may advertise
Lim15 == JObject([k \in {"min_pow_difficulty"} |-> JInt(15)])
Lim5 == JObject([k \in {"pow"} |-> JInt(5)])
LimSamples ==
    { Lim15, Lim5,
      JObject([k \in {"pow", "difficulty"} |-> IF k = "pow" THEN JInt(5) ELSE JInt(20)]),
      JObject([k \in {"minPoW", "pow"} |-> IF k = "pow" THEN JStr ELSE JFloat]),
      JObject([k \in {"pow"} |-> JInt(0)]),
      JObject([k \in {"pow"} |-> JInt(-3)]),
      JObject([k \in {"pow"} |-> JBool(1)]),
      JObject([k \in {"other"} |-> JInt(99)]) }

Info1(k, v) == JObject([m \in {k} |-> v])
Info2(a, b) == JObject([m \in {"limitation", "limits"} |-> IF m = "limitation" THEN a ELSE b])

InfoSamples ==
    {EmptyDict, JArray}
    \cup {Info1("limitation", l) : l \in LimSamples \cup {JNumber}}
    \cup {Info1("limits", Lim5)}
    \cup {Info2(a, Lim5) : a \in {Lim15, EmptyDict, JNull}}

\* what http_request does: raise, or return a response
Response200(info) == [kind |-> "response", status |-> 200, content |-> "json", info |-> info]
AnswerSamples ==
    {Response200(i) : i \in InfoSamples}
    \cup { [kind |-> "raise", status |-> 0, content |-> "empty", info |-> EmptyDict],
           [kind |-> "response", status |-> 200, content |-> "empty", info |-> EmptyDict],
           [kind |-> "response", status |-> 200, content |-> "garbage", info |-> EmptyDict],
           [kind |-> "response", status |-> 404, content |-> "json", info |-> Info1("limitation", Lim15)],
           [kind |-> "response", status |-> 204, content |-> "empty", info |-> EmptyDict] }

\* relay A of test_fetch_relay_min_pow_variants advertises
\* limitation.min_pow_difficulty = 15, relay B limits.pow = 5
ProbeA == [url |-> Url("wss", WSS, HostA, <<>>, <<>>), answer |-> Response200(Info1("limitation", Lim15))]
ProbeB == [url |-> Url("wss", WSS, HostA, PathX, <<>>), answer |-> Response200(Info1("limits", Lim5))]

Probes ==
    {[url |-> u, answer |-> ProbeA.answer] : u \in UrlSamples}
    \cup {[url |-> ProbeA.url, answer |-> a] : a \in AnswerSamples}
    \cup {ProbeB}

----------------------------------------------------------------------------
(* publish_event_with_client                                               *)

\* an exception of a client operation: the relay the loop was at (0 in
\* broadcast mode, which has one client for all relays) and the operation
Err(r, op) == [relay |-> r, op |-> op]
NoErr == Err(0, "None")

\* RuntimeError("Publishing failed on all relays")
AllRelaysFailed == Err(0, "Publishing failed on all relays")

\* one signing or client operation: which Client object, argument, outcome
PEv(op, cl, arg, ok) == [op |-> op, client |-> cl, arg |-> arg, ok |-> ok]

NoPubResult == [kind |-> "none", err |-> NoErr, id |-> <<>>]
PubReturn(id) == [kind |-> "return", err |-> NoErr, id |-> id]
PubRaise(e) == [kind |-> "raise", err |-> e, id |-> <<>>]

\* evt.id().to_hex() of the event a builder signs to
SignedIdHex(b) == IdHex(Event(b))

\* a test of DRY_RUN that never takes the dry-run branch
DryRunBranch_Never(d) == FALSE

\* if DRY_RUN:
DryRunBranch(d) == d

\* an except clause that keeps the first error it saw
KeepErr_First(last, e) == IF last = NoErr THEN e ELSE last

\* except Exception as e: last_err = e
KeepErr(last, e) == e

\* a finally block that lets the exception of disconnect out
DisconnectSwallowed_Never == FALSE

\* finally: try: await client.disconnect() except Exception: pass
DisconnectSwallowed == TRUE

MaxPubRelays == 3
PubRelays == {RelayA, RelayC}
Builders == {1, 2}
PublishModes == {"broadcast", "first_success"}

----------------------------------------------------------------------------
(* build_sign_preview_publish and the flows with an evidence URL           *)

\* what build_sign_preview_publish gives: (event id, published) or an exception
NoBspp == [kind |-> "none", eid |-> <<>>, published |-> FALSE]
BsppReturn(eid, published) == [kind |-> "return", eid |-> eid, published |-> published]
BsppRaise == [kind |-> "raise", eid |-> <<>>, published |-> FALSE]

\* one step of a flow: operation, the event it is about, detail
FEv(op, st, info) == [op |-> op, stage |-> st, info |-> info]

\* what the user types at a [Y/n] question
ConfirmAnswers == {"", "y", "yes", "n"}

\* confirm(label, default): the default for an empty answer, else y / yes
confirm(ans, default) == IF ans = "" THEN default ELSE ans \in {"y", "yes"}

\* a preview that publishes whatever was answered
Aborted_Never(confirmed) == FALSE

\* if not confirm("Publish?", default=not DRY_RUN): return event id, False
Aborted(confirmed) == ~confirmed

\* a flow that goes on with evidence that was not published
EvidenceMissing_Never(published) == FALSE

\* if not published: echo("Evidence was not published. Aborting ..."); return
EvidenceMissing(published) == ~published

\* the builders of the evidence metadata event and of the event that cites it
BuilderOf(st) == IF st = "evidence" THEN 1 ELSE 2

MaxFlowRelays == 1
Flows == {"create_contestation_event", "create_confirmation_event"}

----------------------------------------------------------------------------
(* Idle values of the parts a specification does not exercise              *)

CodecIdle == cpc = "idle" /\ cfn = "none" /\ carg = <<>> /\ cres = <<>>

HttpIdle ==
    /\ hpc = "idle" /\ opener = "urllib" /\ method = "GET" /\ max_retries = 0
    /\ attempt = 0 /\ last_exc = NoException /\ pending = NoOutcome
    /\ calls = <<>> /\ sleeps = <<>> /\ hresult = NoOutcome

ResolveIdle ==
    /\ rpc = "idle" /\ rinput = NoInput /\ relay_urls = <<>> /\ tok = <<>>
    /\ decoded = [ok |-> FALSE] /\ relays = <<>> /\ client = NoClient
    /\ events_list = <<>> /\ rfault = "None" /\ rresult = NoResult /\ trace = <<>>

PowIdle ==
    /\ ppc = "idle" /\ probes = <<>> /\ pidx = 0 /\ max_pow = 0
    /\ diag = <<>> /\ requests = <<>> /\ presult = NoPowResult
    /\ DEFAULT_POW = 10 /\ chosen = 0

PublishIdle ==
    /\ pub_pc = "idle" /\ DRY_RUN = FALSE /\ PUBLISH_MODE = "broadcast" /\ builder = 0
    /\ pub_relay_urls = <<>> /\ pub_r = 0 /\ clients = 0 /\ last_err = NoErr
    /\ pub_fault = NoErr /\ eid_hex = <<>> /\ pub_result = NoPubResult /\ pub_trace = <<>>

FlowIdle ==
    /\ fpc = "idle" /\ flow = "none" /\ stage = "none" /\ bspp = NoBspp
    /\ evidence_e_id_hex = <<>> /\ ftrace = <<>>

----------------------------------------------------------------------------
(* The codec functions applied to one input                                *)

InitCodec ==
    /\ cpc = "ready"
    /\ \/ cfn = "_parse_tlvs" /\ carg \in Buffers(MaxBufLen)
       \/ cfn = "decode_nprofile" /\ carg \in ProfileInputs(MaxRecs)
       \/ cfn = "decode_naddr" /\ carg \in AddrInputs(MaxHints)
       \/ cfn = "_nip19_payload" /\ carg \in Bech32Inputs(MaxWords)
       \/ cfn = "substitute" /\ carg \in SubstInputs(MaxSubstWords)
       \/ cfn = "_find_candidate_token" /\ carg \in TextInputs(MaxWordsInText)
    /\ cres = <<>>
    /\ HttpIdle /\ ResolveIdle /\ PowIdle /\ PublishIdle /\ FlowIdle

CallParseTlvs ==
    /\ cpc = "ready" /\ cfn = "_parse_tlvs"
    /\ cres' = _parse_tlvs(carg)
    /\ cpc' = "done"
    /\ UNCHANGED <<cfn, carg, hvars, rvars, pvars, uvars, fvars>>

CallDecodeNprofile ==
    /\ cpc = "ready" /\ cfn = "decode_nprofile"
    /\ cres' = decode_nprofile(carg.text)
    /\ cpc' = "done"
    /\ UNCHANGED <<cfn, carg, hvars, rvars, pvars, uvars, fvars>>

CallDecodeNaddr ==
    /\ cpc = "ready" /\ cfn = "decode_naddr"
    /\ cres' = decode_naddr(carg.text)
    /\ cpc' = "done"
    /\ UNCHANGED <<cfn, carg, hvars, rvars, pvars, uvars, fvars>>

CallNip19Payload ==
    /\ cpc = "ready" /\ cfn = "_nip19_payload"
    /\ cres' = _nip19_payload(carg.text)
    /\ cpc' = "done"
    /\ UNCHANGED <<cfn, carg, hvars, rvars, pvars, uvars, fvars>>

\* the decoder applied to a text and to the text with one character replaced
CallDecodeSubstituted ==
    /\ cpc = "ready" /\ cfn = "substitute"
    /\ cres' = [orig |-> _nip19_payload(carg.text), subst |-> _nip19_payload(carg.subst)]
    /\ cpc' = "done"
    /\ UNCHANGED <<cfn, carg, hvars, rvars, pvars, uvars, fvars>>

CallFindCandidateToken ==
    /\ cpc = "ready" /\ cfn = "_find_candidate_token"
    /\ cres' = _find_candidate_token(carg.text)
    /\ cpc' = "done"
    /\ UNCHANGED <<cfn, carg, hvars, rvars, pvars, uvars, fvars>>

NextCodec ==
    \/ CallFindCandidateToken
    \/ CallParseTlvs
    \/ CallDecodeNprofile
    \/ CallDecodeNaddr
    \/ CallNip19Payload
    \/ CallDecodeSubstituted

SpecCodec == InitCodec /\ [][NextCodec]_vars

----------------------------------------------------------------------------
(* One call of http_request                                                *)

InitHttp ==
    /\ hpc = "start"
    /\ opener \in Openers
    /\ method \in Methods
    /\ max_retries \in 1..MaxRetries
    /\ attempt = 0 /\ last_exc = NoException /\ pending = NoOutcome
    /\ calls = <<>> /\ sleeps = <<>> /\ hresult = NoOutcome
    /\ CodecIdle /\ ResolveIdle /\ PowIdle /\ PublishIdle /\ FlowIdle

\* entry: the assert on method holds, attempt = 0, last_exc = None
HttpCall ==
    /\ hpc = "start"
    /\ method \in {"GET", "POST"}
    /\ attempt' = 0
    /\ last_exc' = NoException
    /\ hpc' = "loop"
    /\ UNCHANGED <<opener, method, max_retries, pending, calls, sleeps, hresult, cvars, rvars, pvars, uvars, fvars>>

\* the loop condition holds: headers and body are built, the Request is made and
\* _do is handed to a worker thread; the coroutine awaits it
HttpAttempt ==
    /\ hpc = "loop"
    /\ LoopCond(attempt, max_retries)
    /\ pending' = InFlight
    /\ hpc' = AfterToThread
    /\ UNCHANGED <<opener, method, max_retries, attempt, last_exc, calls, sleeps, hresult,
                   cvars, rvars, pvars, uvars, fvars>>

\* the worker thread runs _do: one urlopen call, answered by the server or not
HttpTransport ==
    /\ hpc = "in_thread"
    /\ \E answer \in Answers :
          /\ calls' = Append(calls, [method |-> method, answer |-> answer,
                                     outcome |-> urlopen(opener, answer)])
          /\ pending' = urlopen(opener, answer)
    /\ hpc' = "resume"
    /\ UNCHANGED <<opener, method, max_retries, attempt, last_exc, sleeps, hresult,
                   cvars, rvars, pvars, uvars, fvars>>

\* the coroutine resumes with the outcome of _do: return resp, or the except
\* clause stores the exception in last_exc
HttpResume ==
    /\ hpc = "resume"
    /\ IF AttemptResult(pending).kind = "raise"
       THEN /\ last_exc' = AttemptResult(pending).exc
            /\ hpc' = "backoff"
            /\ UNCHANGED hresult
       ELSE /\ hresult' = AttemptResult(pending)
            /\ hpc' = "done"
            /\ UNCHANGED last_exc
    /\ pending' = NoOutcome
    /\ UNCHANGED <<opener, method, max_retries, attempt, calls, sleeps, cvars, rvars, pvars, uvars, fvars>>

\* still in the except clause: "await asyncio.sleep(...)" then "attempt += 1"
HttpBackoff ==
    /\ hpc = "backoff"
    /\ sleeps' = IF SleepsAfterFailure(attempt, max_retries)
                 THEN Append(sleeps, BackoffMs(attempt)) ELSE sleeps
    /\ attempt' = attempt + 1
    /\ hpc' = "loop"
    /\ UNCHANGED <<opener, method, max_retries, last_exc, pending, calls, hresult,
                   cvars, rvars, pvars, uvars, fvars>>

\* the loop condition fails: the statement after the loop raises
HttpExhausted ==
    /\ hpc = "loop"
    /\ ~LoopCond(attempt, max_retries)
    /\ hresult' = Raised(ExhaustedException(last_exc))
    /\ hpc' = "done"
    /\ UNCHANGED <<opener, method, max_retries, attempt, last_exc, pending, calls, sleeps,
                   cvars, rvars, pvars, uvars, fvars>>

NextHttp ==
    \/ HttpCall \/ HttpAttempt \/ HttpTransport \/ HttpResume \/ HttpBackoff \/ HttpExhausted

SpecHttp == InitHttp /\ [][NextHttp]_vars

\* every urlopen call ends within its 60 s timeout and every sleep ends, and the
\* event loop keeps running the coroutine: a step that is possible is taken
FairSpecHttp == SpecHttp /\ WF_vars(NextHttp)

----------------------------------------------------------------------------
(* One call of parse_or_resolve_event_id                                   *)

InitResolve ==
    /\ rpc = "start"
    /\ rinput \in ResolveInputs(MaxHints)
    /\ relay_urls \in SeqsUpTo({RelayC}, MaxFallback)
    /\ tok = <<>> /\ decoded = [ok |-> FALSE] /\ relays = <<>> /\ client = NoClient
    /\ events_list = <<>> /\ rfault = "None" /\ rresult = NoResult /\ trace = <<>>
    /\ CodecIdle /\ HttpIdle /\ PowIdle /\ PublishIdle /\ FlowIdle

\* parse_or_resolve_event_id, lines 1081-1082: tok = normalised input
ParseOrResolveNormalize ==
    /\ rpc = "start"
    /\ tok' = _find_candidate_token(_strip_wrappers(rinput.text))
    /\ trace' = Append(trace, Ev("normalize", <<>>, TRUE))
    /\ rpc' = "dispatch"
    /\ UNCHANGED <<rinput, relay_urls, decoded, relays, client, events_list, rfault, rresult,
                   cvars, hvars, pvars, uvars, fvars>>

\* line 1083: the resolver for an naddr token, the local parser for any other
ParseOrResolveDispatch ==
    /\ rpc = "dispatch"
    /\ IF DispatchToResolver(tok)
       THEN /\ rpc' = "decode_naddr"
            /\ trace' = Append(trace, Ev("resolve_naddr_to_event_id", <<>>, TRUE))
       ELSE /\ rpc' = "local"
            /\ trace' = Append(trace, Ev("parse_nostr_id_local_only", <<>>, TRUE))
    /\ UNCHANGED <<rinput, relay_urls, tok, decoded, relays, client, events_list, rfault,
                   rresult, cvars, hvars, pvars, uvars, fvars>>

\* parse_nostr_id_local_only: normalise again, then EventId.parse of the SDK,
\* which accepts the token or raises; any raise becomes ValueError
ParseLocalOnly ==
    /\ rpc = "local"
    /\ tok' = _find_candidate_token(_strip_wrappers(tok))
    /\ \E accepted \in BOOLEAN :
          /\ trace' = Append(Append(trace, Ev("normalize", <<>>, TRUE)),
                             Ev("EventId.parse", <<>>, accepted))
          /\ rresult' = IF accepted THEN ReturnId(<<>>) ELSE RaiseErr(UnsupportedFormat)
    /\ rpc' = "done"
    /\ UNCHANGED <<rinput, relay_urls, decoded, relays, client, events_list, rfault,
                   cvars, hvars, pvars, uvars, fvars>>

\* decode_naddr, lines 853-856: normalise, test the prefix
DecodeNaddrNormalize ==
    /\ rpc = "decode_naddr"
    /\ tok' = _find_candidate_token(_strip_wrappers(tok))
    /\ trace' = Append(trace, Ev("normalize", <<>>, TRUE))
    /\ IF StartsWith(Lower(tok'), NADDR1)
       THEN rpc' = "bech32" /\ UNCHANGED rresult
       ELSE rpc' = "done" /\ rresult' = RaiseErr("Not an naddr")
    /\ UNCHANGED <<rinput, relay_urls, decoded, relays, client, events_list, rfault,
                   cvars, hvars, pvars, uvars, fvars>>

\* decode_naddr, lines 858-860: bech32 decode and regrouping, test of the prefix
DecodeNaddrPayload ==
    /\ rpc = "bech32"
    /\ decoded' = _nip19_payload(Lower(tok))
    /\ trace' = Append(trace, Ev("bech32", <<>>, decoded'.ok))
    /\ IF ~decoded'.ok THEN rpc' = "done" /\ rresult' = RaiseErr(decoded'.err)
       ELSE IF decoded'.hrp # HRP_NADDR
            THEN rpc' = "done" /\ rresult' = RaiseErr("Invalid naddr bech32")
       ELSE rpc' = "tlv" /\ UNCHANGED rresult
    /\ UNCHANGED <<rinput, relay_urls, tok, relays, client, events_list, rfault, cvars, hvars, pvars, uvars, fvars>>

\* decode_naddr, line 861
DecodeNaddrTlvs ==
    /\ rpc = "tlv"
    /\ decoded' = _parse_tlvs(decoded.payload)
    /\ trace' = Append(trace, Ev("tlv", <<>>, decoded'.ok))
    /\ IF ~decoded'.ok THEN rpc' = "done" /\ rresult' = RaiseErr(decoded'.err)
       ELSE rpc' = "fields" /\ UNCHANGED rresult
    /\ UNCHANGED <<rinput, relay_urls, tok, relays, client, events_list, rfault, cvars, hvars, pvars, uvars, fvars>>

\* decode_naddr, lines 863-889: the fields, or the error of the first bad field
DecodeNaddrFields ==
    /\ rpc = "fields"
    /\ decoded' = NaddrFields(decoded.tlvs)
    /\ trace' = Append(trace, Ev("fields", <<>>, decoded'.ok))
    /\ rresult' = IF decoded'.ok THEN rresult ELSE RaiseErr(decoded'.err)
    /\ rpc' = AfterFields(decoded')
    /\ UNCHANGED <<rinput, relay_urls, tok, relays, client, events_list, rfault, cvars, hvars, pvars, uvars, fvars>>

\* resolve_naddr_to_event_id, lines 910-912: the relays to use, a new Client
ResolveCreateClient ==
    /\ rpc = "client"
    /\ relays' = ChooseRelays(IF decoded.ok THEN decoded.relays ELSE <<>>, relay_urls)
    /\ client' = [created |-> TRUE, tried |-> 0, added |-> <<>>, connected |-> FALSE]
    /\ trace' = Append(trace, Ev("Client", <<>>, TRUE))
    /\ rpc' = "add_relay"
    /\ UNCHANGED <<rinput, relay_urls, tok, decoded, events_list, rfault, rresult,
                   cvars, hvars, pvars, uvars, fvars>>

\* lines 914-918: one pass of the loop; an exception of add_relay is swallowed
ResolveAddRelay ==
    /\ rpc = "add_relay"
    /\ client.tried < Len(relays)
    /\ \E ok \in BOOLEAN :
          /\ client' = [client EXCEPT !.tried = @ + 1,
                                      !.added = IF ok THEN Append(@, relays[client.tried + 1])
                                                ELSE @]
          /\ trace' = Append(trace, Ev("add_relay", relays[client.tried + 1], ok))
    /\ UNCHANGED <<rpc, rinput, relay_urls, tok, decoded, relays, events_list, rfault,
                   rresult, cvars, hvars, pvars, uvars, fvars>>

\* line 919: connect, after the loop; a fault leaves through the finally clause
ResolveConnect ==
    /\ rpc \in {"add_relay", "connect"}
    /\ client.tried >= Len(relays)
    /\ \E ok \in BOOLEAN :
          /\ trace' = Append(trace, Ev("connect", <<>>, ok))
          /\ client' = [client EXCEPT !.connected = ok]
          /\ rpc' = IF ok THEN "filter" ELSE OnConnectFault
          /\ rfault' = IF ok THEN rfault ELSE "connect fault"
    /\ UNCHANGED <<rinput, relay_urls, tok, decoded, relays, events_list, rresult,
                   cvars, hvars, pvars, uvars, fvars>>

\* line 921: PublicKey.parse, Kind and Filter of the SDK accept the fields or raise
ResolveBuildFilter ==
    /\ rpc = "filter"
    /\ \E ok \in BOOLEAN :
          /\ trace' = Append(trace, Ev("Filter", <<>>, ok))
          /\ rpc' = IF ok THEN "fetch" ELSE "finally"
          /\ rfault' = IF ok THEN rfault ELSE "filter fault"
    /\ UNCHANGED <<rinput, relay_urls, tok, decoded, relays, client, events_list, rresult,
                   cvars, hvars, pvars, uvars, fvars>>

\* lines 922-937: the query raises, or returns events; they are normalised to a
\* list; an empty list raises the not-found error
ResolveFetchEvents ==
    /\ rpc = "fetch"
    /\ \E events \in SeqsUpTo({Event(1), Event(2)}, MaxEvents),
          shape \in EventsShapes, ok \in BOOLEAN :
          /\ trace' = Append(trace, Ev("fetch_events", IF ok THEN events ELSE <<>>, ok))
          /\ events_list' = IF ok THEN NormalizeEvents(events, shape) ELSE <<>>
          /\ rfault' = IF ~ok THEN "fetch_events fault"
                       ELSE IF events_list' = <<>> THEN NoEventFound
                       ELSE rfault
    /\ rpc' = "finally"
    /\ UNCHANGED <<rinput, relay_urls, tok, decoded, relays, client, rresult, cvars, hvars, pvars, uvars, fvars>>

\* lines 938-943: disconnect, whose exception is swallowed; then the return of
\* line 937 or the exception in flight
ResolveFinally ==
    /\ rpc = "finally"
    /\ \E ok \in BOOLEAN :
          /\ trace' = Append(trace, Ev("disconnect", <<>>, ok))
          /\ client' = [client EXCEPT !.connected = IF ok THEN FALSE ELSE @]
          /\ rresult' = IF ~ok /\ ~DisconnectSwallowed THEN RaiseErr("disconnect fault")
                        ELSE IF rfault # "None" THEN RaiseErr(rfault)
                        ELSE ReturnId(IdHex(events_list[1]))
    /\ rpc' = "done"
    /\ UNCHANGED <<rinput, relay_urls, tok, decoded, relays, events_list, rfault,
                   cvars, hvars, pvars, uvars, fvars>>

NextResolve ==
    \/ ParseOrResolveNormalize \/ ParseOrResolveDispatch \/ ParseLocalOnly
    \/ DecodeNaddrNormalize \/ DecodeNaddrPayload \/ DecodeNaddrTlvs \/ DecodeNaddrFields
    \/ ResolveCreateClient \/ ResolveAddRelay \/ ResolveConnect \/ ResolveBuildFilter
    \/ ResolveFetchEvents \/ ResolveFinally

SpecResolve == InitResolve /\ [][NextResolve]_vars

----------------------------------------------------------------------------
(* One call of fetch_relay_min_pow                                         *)

InitPow ==
    /\ ppc = "start"
    /\ probes \in SeqsUpTo(Probes, MaxRelays)
    /\ pidx = 0 /\ max_pow = 0 /\ diag = <<>> /\ requests = <<>> /\ presult = NoPowResult
    /\ DEFAULT_POW \in DefaultPows /\ chosen = 0
    /\ CodecIdle /\ HttpIdle /\ ResolveIdle /\ PublishIdle /\ FlowIdle

\* entry: max_pow = 0, diag = [], the for loop is at the first relay
PowCall ==
    /\ ppc = "start"
    /\ ppc' = "loop" /\ pidx' = 1 /\ max_pow' = 0 /\ diag' = <<>>
    /\ UNCHANGED <<probes, requests, presult, DEFAULT_POW, chosen, cvars, hvars, rvars, uvars, fvars>>

\* a relay whose URL has no HTTP form: the entry is appended as it started
PowSkip ==
    /\ ppc = "loop" /\ pidx <= Len(probes)
    /\ NotHttp(convert_ws_to_http(probes[pidx].url.text))
    /\ diag' = Append(diag, Entry(probes[pidx].url.text))
    /\ pidx' = pidx + 1
    /\ UNCHANGED <<ppc, probes, max_pow, requests, presult, DEFAULT_POW, chosen, cvars, hvars, rvars, uvars, fvars>>

\* await http_request("GET", http, headers=headers)
PowRequest ==
    /\ ppc = "loop" /\ pidx <= Len(probes)
    /\ ~NotHttp(convert_ws_to_http(probes[pidx].url.text))
    /\ requests' = Append(requests, convert_ws_to_http(probes[pidx].url.text).url)
    /\ ppc' = "await"
    /\ UNCHANGED <<probes, pidx, max_pow, diag, presult, DEFAULT_POW, chosen, cvars, hvars, rvars, uvars, fvars>>

\* http_request has answered: the rest of the loop body
PowResponse ==
    /\ ppc = "await"
    /\ LET r == AfterAnswer(Entry(probes[pidx].url.text), probes[pidx].answer, max_pow)
       IN  IF r[3] /\ ~Swallowed
           THEN /\ presult' = [NoPowResult EXCEPT !.done = TRUE, !.raised = TRUE]
                /\ ppc' = "done"
                /\ UNCHANGED <<pidx, max_pow, diag>>
           ELSE /\ diag' = Append(diag, r[1]) /\ max_pow' = r[2]
                /\ pidx' = pidx + 1
                /\ ppc' = "loop"
                /\ UNCHANGED presult
    /\ UNCHANGED <<probes, requests, DEFAULT_POW, chosen, cvars, hvars, rvars, uvars, fvars>>

\* after the loop: mark the forced entries and return (max_pow, diag)
PowReturn ==
    /\ ppc = "loop" /\ pidx > Len(probes)
    /\ diag' = [i \in 1..Len(diag) |->
                  [diag[i] EXCEPT !.forced = Forced(diag[i].min_pow, max_pow)]]
    /\ presult' = [done |-> TRUE, raised |-> FALSE, max_pow |-> max_pow, diag |-> diag']
    /\ ppc' = "done"
    /\ UNCHANGED <<probes, pidx, max_pow, requests, DEFAULT_POW, chosen, cvars, hvars, rvars, uvars, fvars>>

\* resolve_pow after fetch_relay_min_pow has returned (max_pow, diag): the
\* report is echoed and the chosen difficulty returned
ResolvePow ==
    /\ ppc = "done" /\ ~presult.raised
    /\ chosen' = Chosen(DEFAULT_POW, presult.max_pow)
    /\ ppc' = "resolved"
    /\ UNCHANGED <<probes, pidx, max_pow, diag, requests, presult, DEFAULT_POW,
                   cvars, hvars, rvars, uvars, fvars>>

NextPow == PowCall \/ PowSkip \/ PowRequest \/ PowResponse \/ PowReturn \/ ResolvePow

SpecPow == InitPow /\ [][NextPow]_vars

----------------------------------------------------------------------------
(* One call of publish_event_with_client                                   *)

InitPublish ==
    /\ pub_pc = "start"
    /\ DRY_RUN \in BOOLEAN /\ PUBLISH_MODE \in PublishModes /\ builder \in Builders
    /\ pub_relay_urls \in SeqsUpTo(PubRelays, MaxPubRelays)
    /\ pub_r = 0 /\ clients = 0 /\ last_err = NoErr /\ pub_fault = NoErr
    /\ eid_hex = <<>> /\ pub_result = NoPubResult /\ pub_trace = <<>>
    /\ CodecIdle /\ HttpIdle /\ ResolveIdle /\ PowIdle /\ FlowIdle

\* lines 985-991: sign locally and return the id
PublishDryRun ==
    /\ pub_pc = "start" /\ DryRunBranch(DRY_RUN)
    /\ pub_trace' = Append(pub_trace, PEv("sign", 0, <<>>, TRUE))
    /\ pub_result' = PubReturn(SignedIdHex(builder))
    /\ pub_pc' = "done"
    /\ UNCHANGED <<DRY_RUN, PUBLISH_MODE, builder, pub_relay_urls, pub_r, clients, last_err,
                   pub_fault, eid_hex, cvars, hvars, rvars, pvars, fvars>>

\* line 1012: the mode is chosen; first_success sets last_err = None (1013),
\* broadcast creates its one client (1033)
PublishStart ==
    /\ pub_pc = "start" /\ ~DryRunBranch(DRY_RUN)
    /\ pub_r' = 1 /\ last_err' = NoErr /\ pub_fault' = NoErr /\ eid_hex' = <<>>
    /\ IF PUBLISH_MODE = "first_success"
       THEN pub_pc' = "loop" /\ UNCHANGED <<clients, pub_trace>>
       ELSE /\ clients' = clients + 1
            /\ pub_trace' = Append(pub_trace, PEv("Client", clients + 1, <<>>, TRUE))
            /\ pub_pc' = IF pub_relay_urls = <<>> THEN "connect" ELSE "add_relay"
    /\ UNCHANGED <<DRY_RUN, PUBLISH_MODE, builder, pub_relay_urls, pub_result,
                   cvars, hvars, rvars, pvars, fvars>>

\* lines 1014-1015: the loop takes the next relay and creates a client for it
FirstSuccessClient ==
    /\ pub_pc = "loop" /\ pub_r <= Len(pub_relay_urls)
    /\ clients' = clients + 1
    /\ pub_trace' = Append(pub_trace, PEv("Client", clients + 1, <<>>, TRUE))
    /\ pub_pc' = "add_relay"
    /\ UNCHANGED <<DRY_RUN, PUBLISH_MODE, builder, pub_relay_urls, pub_r, last_err, pub_fault,
                   eid_hex, pub_result, cvars, hvars, rvars, pvars, fvars>>

\* line 1031: the loop has ended without a return
FirstSuccessExhausted ==
    /\ pub_pc = "loop" /\ pub_r > Len(pub_relay_urls)
    /\ pub_result' = PubRaise(IF last_err # NoErr THEN last_err ELSE AllRelaysFailed)
    /\ pub_pc' = "done"
    /\ UNCHANGED <<DRY_RUN, PUBLISH_MODE, builder, pub_relay_urls, pub_r, clients, last_err,
                   pub_fault, eid_hex, pub_trace, cvars, hvars, rvars, pvars, fvars>>

\* what an exception of connect or send (or, in first_success mode, add_relay)
\* leads to: first_success keeps it in last_err (1022-1023), broadcast leaves
\* it in flight; both go to their finally block
PublishFailed(op) ==
    /\ IF PUBLISH_MODE = "first_success"
       THEN last_err' = KeepErr(last_err, Err(pub_r, op)) /\ UNCHANGED pub_fault
       ELSE pub_fault' = Err(0, op) /\ UNCHANGED last_err
    /\ pub_pc' = "finally"

\* line 1017, or one pass of the loop of lines 1035-1039, where an exception of
\* add_relay is swallowed
PublishAddRelay ==
    /\ pub_pc = "add_relay"
    /\ \E ok \in BOOLEAN :
          /\ pub_trace' = Append(pub_trace, PEv("add_relay", clients, pub_relay_urls[pub_r], ok))
          /\ IF PUBLISH_MODE = "first_success"
             THEN IF ok THEN pub_pc' = "connect" /\ UNCHANGED <<pub_r, last_err, pub_fault>>
                        ELSE PublishFailed("add_relay") /\ UNCHANGED pub_r
             ELSE /\ pub_r' = pub_r + 1
                  /\ pub_pc' = IF pub_r = Len(pub_relay_urls) THEN "connect" ELSE "add_relay"
                  /\ UNCHANGED <<last_err, pub_fault>>
    /\ UNCHANGED <<DRY_RUN, PUBLISH_MODE, builder, pub_relay_urls, clients, eid_hex, pub_result,
                   cvars, hvars, rvars, pvars, fvars>>

\* line 1018 / 1040
PublishConnect ==
    /\ pub_pc = "connect"
    /\ \E ok \in BOOLEAN :
          /\ pub_trace' = Append(pub_trace, PEv("connect", clients, <<>>, ok))
          /\ IF ok THEN pub_pc' = "send" /\ UNCHANGED <<last_err, pub_fault>>
                   ELSE PublishFailed("connect")
    /\ UNCHANGED <<DRY_RUN, PUBLISH_MODE, builder, pub_relay_urls, pub_r, clients, eid_hex,
                   pub_result, cvars, hvars, rvars, pvars, fvars>>

\* line 1019 / 1041: _send_with sends the builder and gives the id of the event
PublishSend ==
    /\ pub_pc = "send"
    /\ \E ok \in BOOLEAN :
          /\ pub_trace' = Append(pub_trace, PEv("send_event_builder", clients, <<>>, ok))
          /\ IF ok THEN /\ eid_hex' = SignedIdHex(builder)
                        /\ pub_pc' = "finally"
                        /\ UNCHANGED <<last_err, pub_fault>>
                   ELSE PublishFailed("send_event_builder") /\ UNCHANGED eid_hex
    /\ UNCHANGED <<DRY_RUN, PUBLISH_MODE, builder, pub_relay_urls, pub_r, clients, pub_result,
                   cvars, hvars, rvars, pvars, fvars>>

\* lines 1025-1030 / 1044-1049: disconnect; then the return of line 1021 / 1043,
\* the next relay of the first_success loop, or the exception in flight
PublishFinally ==
    /\ pub_pc = "finally"
    /\ \E ok \in BOOLEAN :
          /\ pub_trace' = Append(pub_trace, PEv("disconnect", clients, <<>>, ok))
          /\ IF ~ok /\ ~DisconnectSwallowed
             THEN /\ pub_result' = PubRaise(Err(pub_r, "disconnect"))
                  /\ pub_pc' = "done" /\ UNCHANGED pub_r
             ELSE IF eid_hex # <<>>
             THEN /\ pub_result' = PubReturn(eid_hex)
                  /\ pub_pc' = "done" /\ UNCHANGED pub_r
             ELSE IF PUBLISH_MODE = "first_success"
             THEN /\ pub_r' = pub_r + 1
                  /\ pub_pc' = "loop" /\ UNCHANGED pub_result
             ELSE /\ pub_result' = PubRaise(pub_fault)
                  /\ pub_pc' = "done" /\ UNCHANGED pub_r
    /\ UNCHANGED <<DRY_RUN, PUBLISH_MODE, builder, pub_relay_urls, clients, last_err, pub_fault,
                   eid_hex, cvars, hvars, rvars, pvars, fvars>>

NextPublish ==
    \/ PublishDryRun \/ PublishStart \/ FirstSuccessClient \/ FirstSuccessExhausted
    \/ PublishAddRelay \/ PublishConnect \/ PublishSend \/ PublishFinally

SpecPublish == InitPublish /\ [][NextPublish]_vars

\* a call of resolve_naddr_to_event_id or of publish_event_with_client
SpecClients == (InitResolve \/ InitPublish) /\ [][NextResolve \/ NextPublish]_vars

----------------------------------------------------------------------------
(* create_contestation_event / create_confirmation_event, evidence by URL  *)

InitFlow ==
    /\ fpc = "start" /\ flow \in Flows /\ stage = "none" /\ bspp = NoBspp
    /\ evidence_e_id_hex = <<>> /\ ftrace = <<>>
    /\ pub_pc = "idle" /\ DRY_RUN \in BOOLEAN /\ PUBLISH_MODE \in PublishModes /\ builder = 0
    /\ pub_relay_urls \in SeqsUpTo({RelayA}, MaxFlowRelays)
    /\ pub_r = 0 /\ clients = 0 /\ last_err = NoErr /\ pub_fault = NoErr
    /\ eid_hex = <<>> /\ pub_result = NoPubResult /\ pub_trace = <<>>
    /\ CodecIdle /\ HttpIdle /\ ResolveIdle /\ PowIdle

\* lines 1707-1710 / 1793-1796: the evidence URL is asked for; an empty answer
\* ends the flow, a URL enters build_and_publish_metadata_event
FlowEvidenceUrl ==
    /\ fpc = "start"
    /\ \E given \in BOOLEAN :
          /\ ftrace' = Append(ftrace, FEv("prompt_https_optional", "evidence", given))
          /\ fpc' = IF given THEN "metadata" ELSE "done"
    /\ UNCHANGED <<flow, stage, bspp, evidence_e_id_hex, cvars, hvars, rvars, pvars, uvars>>

\* build_and_publish_metadata_event up to its builder, lines 1325-1405: the
\* download (or the Blossom upload) raises, or the metadata event is built
MetadataBuild ==
    /\ fpc = "metadata"
    /\ \E ok \in BOOLEAN :
          IF ok
          THEN /\ builder' = BuilderOf("evidence")
               /\ stage' = "evidence"
               /\ ftrace' = Append(ftrace, FEv("build", "evidence", <<>>))
               /\ fpc' = "sign"
               /\ UNCHANGED bspp
          ELSE /\ bspp' = BsppRaise
               /\ ftrace' = Append(ftrace, FEv("download_failed", "evidence", <<>>))
               /\ fpc' = "after_evidence"
               /\ UNCHANGED <<builder, stage>>
    /\ UNCHANGED <<flow, evidence_e_id_hex, pub_pc, DRY_RUN, PUBLISH_MODE, pub_relay_urls, pub_r,
                   clients, last_err, pub_fault, eid_hex, pub_result, pub_trace,
                   cvars, hvars, rvars, pvars>>

\* build_sign_preview_publish, lines 1155-1161: sign and print the preview
PreviewSign ==
    /\ fpc = "sign"
    /\ ftrace' = Append(ftrace, FEv("sign", stage, SignedIdHex(builder)))
    /\ fpc' = "confirm"
    /\ UNCHANGED <<flow, stage, bspp, evidence_e_id_hex, cvars, hvars, rvars, pvars, uvars>>

\* where a flow goes on after build_sign_preview_publish has ended
AfterPreview == IF stage = "evidence" THEN "after_evidence" ELSE "after_dependent"

\* lines 1163-1167: the question "Publish?"; a refusal returns (id, False),
\* an agreement calls publish_event_with_client
PreviewConfirm ==
    /\ fpc = "confirm"
    /\ \E ans \in ConfirmAnswers :
          LET confirmed == confirm(ans, ~DRY_RUN) IN
            IF Aborted(confirmed)
            THEN /\ ftrace' = Append(ftrace, FEv("confirm", stage, confirmed))
                 /\ bspp' = BsppReturn(SignedIdHex(builder), FALSE)
                 /\ fpc' = AfterPreview
                 /\ UNCHANGED pub_pc
            ELSE /\ ftrace' = Append(Append(ftrace, FEv("confirm", stage, confirmed)),
                                     FEv("publish_event_with_client", stage, Len(pub_trace)))
                 /\ pub_pc' = "start"
                 /\ fpc' = "publishing"
                 /\ UNCHANGED bspp
    /\ UNCHANGED <<flow, stage, evidence_e_id_hex, DRY_RUN, PUBLISH_MODE, builder, pub_relay_urls,
                   pub_r, clients, last_err, pub_fault, eid_hex, pub_result, pub_trace,
                   cvars, hvars, rvars, pvars>>

\* lines 1167-1169: publish_event_with_client has returned or raised
PreviewPublished ==
    /\ fpc = "publishing" /\ pub_pc = "done"
    /\ bspp' = IF pub_result.kind = "raise" THEN BsppRaise ELSE BsppReturn(pub_result.id, TRUE)
    /\ ftrace' = Append(ftrace, FEv(IF pub_result.kind = "raise" THEN "raise" ELSE "published",
                                    stage, Len(pub_trace)))
    /\ pub_pc' = "returned"
    /\ fpc' = AfterPreview
    /\ UNCHANGED <<flow, stage, evidence_e_id_hex, DRY_RUN, PUBLISH_MODE, builder, pub_relay_urls,
                   pub_r, clients, last_err, pub_fault, eid_hex, pub_result, pub_trace,
                   cvars, hvars, rvars, pvars>>

\* lines 1711-1723 and 1750 / 1798-1811: what the flow does with the outcome
\* of build_and_publish_metadata_event.  create_contestation_event has one try
\* block around everything, create_confirmation_event has one around the
\* evidence alone, whose handler reports "Skipping evidence" and goes on
AfterEvidence ==
    /\ fpc = "after_evidence"
    /\ IF bspp.kind = "raise"
       THEN /\ fpc' = IF flow = "create_confirmation_event" THEN "dependent" ELSE "done"
            /\ UNCHANGED evidence_e_id_hex
       ELSE IF EvidenceMissing(bspp.published)
       THEN fpc' = "done" /\ UNCHANGED evidence_e_id_hex
       ELSE fpc' = "dependent" /\ evidence_e_id_hex' = bspp.eid
    /\ UNCHANGED <<flow, stage, bspp, ftrace, cvars, hvars, rvars, pvars, uvars>>

\* lines 1728-1741 / 1813-1835: the contestation or confirmation is built, with
\* an "e" tag that mentions the evidence when there is one
BuildDependent ==
    /\ fpc = "dependent"
    /\ builder' = BuilderOf("dependent")
    /\ stage' = "dependent"
    /\ ftrace' = Append(ftrace, FEv("build", "dependent", evidence_e_id_hex))
    /\ fpc' = "sign"
    /\ UNCHANGED <<flow, bspp, evidence_e_id_hex, pub_pc, DRY_RUN, PUBLISH_MODE, pub_relay_urls,
                   pub_r, clients, last_err, pub_fault, eid_hex, pub_result, pub_trace,
                   cvars, hvars, rvars, pvars>>

\* lines 1742-1751 / 1836-1845: the result is dropped, an exception reported
AfterDependent ==
    /\ fpc = "after_dependent"
    /\ fpc' = "done"
    /\ UNCHANGED <<flow, stage, bspp, evidence_e_id_hex, ftrace, cvars, hvars, rvars, pvars, uvars>>

NextFlow ==
    \/ FlowEvidenceUrl \/ MetadataBuild \/ PreviewSign \/ PreviewConfirm \/ PreviewPublished
    \/ AfterEvidence \/ BuildDependent \/ AfterDependent
    \/ NextPublish

SpecFlow == InitFlow /\ [][NextFlow]_vars

----------------------------------------------------------------------------
(* Properties of the codec functions                                       *)

CodecDone(fn) == cpc = "done" /\ cfn = fn

\* the complete records at the front of a buffer, read off the remaining bytes:
\* a record is complete when its two header bytes and its declared value are there
RECURSIVE CompleteRecords(_)
CompleteRecords(buf) ==
    IF Len(buf) < 2 THEN <<>>
    ELSE IF Len(buf) - 2 < buf[2] THEN <<>>
    ELSE <<[type |-> buf[1], value |-> SubSeq(buf, 3, 2 + buf[2])]>>
         \o CompleteRecords(SubSeq(buf, 3 + buf[2], Len(buf)))

\* the values of the records of type t, in record order
RECURSIVE ValuesOfType(_, _)
ValuesOfType(recs, t) ==
    IF recs = <<>> THEN <<>>
    ELSE (IF recs[1].type = t THEN <<recs[1].value>> ELSE <<>>) \o ValuesOfType(Tail(recs), t)

RECURSIVE EncodedLen(_)
EncodedLen(recs) == IF recs = <<>> THEN 0 ELSE 2 + Len(recs[1].value) + EncodedLen(Tail(recs))

\* C9: for every buffer _parse_tlvs does not raise, and its map holds exactly the
\* records of the longest prefix of complete records: the keys are the types of
\* those records and each key lists its values in buffer order; nothing at or
\* after the first incomplete record is in the map.
C9_ParseTlvsLongestPrefix ==
    CodecDone("_parse_tlvs") =>
        LET recs == CompleteRecords(carg)
        IN  /\ cres.ok
            /\ DOMAIN cres.tlvs = {recs[k].type : k \in 1..Len(recs)}
            /\ \A t \in DOMAIN cres.tlvs : cres.tlvs[t] = ValuesOfType(recs, t)

\* a buffer with two complete records of one type followed by an incomplete record
C9_Witness ==
    /\ CodecDone("_parse_tlvs") /\ cres.ok
    /\ \E t \in DOMAIN cres.tlvs : Len(cres.tlvs[t]) = 2 /\ cres.tlvs[t][1] # cres.tlvs[t][2]
    /\ EncodedLen(CompleteRecords(carg)) < Len(carg)

\* the type-0 values of the records an nprofile input was assembled from
RECURSIVE Type0Values(_)
Type0Values(recs) ==
    IF recs = <<>> THEN <<>>
    ELSE (IF recs[1][1] = 0 THEN <<recs[1][2]>> ELSE <<>>) \o Type0Values(Tail(recs))

HexVal(c) == IF IsDigitCh(c) THEN c - 48 ELSE c - 87

\* text is the lowercase hex rendering of bytes b
IsHexOf(text, b) ==
    /\ Len(text) = 2 * Len(b)
    /\ \A k \in 1..Len(b) : 16 * HexVal(text[2 * k - 1]) + HexVal(text[2 * k]) = b[k]

MissingPubkey == "nprofile missing pubkey (TLV 0 len 32)"

\* C10 as stated: decode_nprofile succeeds only when type 0 occurs with exactly
\* one value and that value has 32 bytes; otherwise (the token itself being a
\* well-formed nprofile) it fails with the missing-field error; on success the
\* key is the hex of that single value.
C10_ExactlyOneValue ==
    CodecDone("decode_nprofile") =>
        LET v0 == Type0Values(carg.recs)
            good == Len(v0) = 1 /\ Len(v0[1]) = 32
        IN  /\ cres.ok => good /\ IsHexOf(cres.pk_hex, v0[1])
            /\ (carg.wrap # "corrupt" /\ ~good) => (~cres.ok /\ cres.err = MissingPubkey)

\* C10 amended: decode_nprofile succeeds only when type 0 is present and its
\* first value has 32 bytes (further type-0 values are ignored); when type 0 is
\* absent or its first value has another length it fails with the missing-field
\* error; on success the key is the hex of the first type-0 value.
C10_FirstValue32 ==
    CodecDone("decode_nprofile") =>
        LET v0 == Type0Values(carg.recs)
            good == Len(v0) >= 1 /\ Len(v0[1]) = 32
        IN  /\ cres.ok => good /\ IsHexOf(cres.pk_hex, v0[1])
            /\ (carg.wrap # "corrupt" /\ ~good) => (~cres.ok /\ cres.err = MissingPubkey)
            /\ (carg.wrap # "corrupt" /\ good) => cres.ok

\* an nprofile with two type-0 values, the first of 32 bytes, decoded to the first
C10_Witness ==
    /\ CodecDone("decode_nprofile") /\ cres.ok
    /\ Len(Type0Values(carg.recs)) = 2
    /\ Type0Values(carg.recs)[1] # Type0Values(carg.recs)[2]
    /\ IsHexOf(cres.pk_hex, Type0Values(carg.recs)[1])

\* the values of the records <<type, value>> of type t, in record order
RECURSIVE RecValues(_, _)
RecValues(recs, t) ==
    IF recs = <<>> THEN <<>>
    ELSE (IF recs[1][1] = t THEN <<recs[1][2]>> ELSE <<>>) \o RecValues(Tail(recs), t)

\* the relay hints of the records an input was assembled from: the type-1
\* values that are UTF-8 text, in record order
RECURSIVE HintsOf(_)
HintsOf(recs) ==
    IF recs = <<>> THEN <<>>
    ELSE (IF recs[1][1] = 1 /\ recs[1][2] # NotUtf8 THEN <<recs[1][2]>> ELSE <<>>)
         \o HintsOf(Tail(recs))

\* the input of decode_naddr is an intact token under the prefix "naddr"
AddrIntact == carg.wrap = "plain" /\ carg.hrp = HRP_NADDR

AddrIdOk == RecValues(carg.recs, 0) # <<>> /\ RecValues(carg.recs, 0)[1] # NotUtf8
AddrAuthorOk == RecValues(carg.recs, 2) # <<>> /\ Len(RecValues(carg.recs, 2)[1]) = 32
AddrKindOk == RecValues(carg.recs, 3) # <<>> /\ Len(RecValues(carg.recs, 3)[1]) = 4

MissingIdentifier == "naddr missing identifier (TLV 0)"
MissingAuthor == "naddr missing author pubkey (TLV 2 len 32)"
MissingKind == "naddr missing kind (TLV 3 len 4)"
\* the errors decode_naddr raises for an absent field
MissingFieldErrors == {MissingIdentifier, MissingAuthor, MissingKind}

\* four bytes read as an unsigned big-endian number, as hi * 2^16 + lo
BigEndian32(v) == [hi |-> 256 * v[1] + v[2], lo |-> 256 * v[3] + v[4]]

RelaysAside ==
    IF cfn = "decode_naddr" THEN AddrIntact /\ AddrIdOk /\ AddrAuthorOk /\ AddrKindOk
    ELSE /\ carg.wrap # "corrupt"
         /\ Type0Values(carg.recs) # <<>> /\ Len(Type0Values(carg.recs)[1]) = 32

\* C13: in decode_nprofile and decode_naddr the relay list of a successful
\* decode is the sequence of the type-1 values that are UTF-8, in buffer order
\* without those that are not; an undecodable value never makes the decode fail.
C13_RelaysAreDecodableHintsInOrder ==
    (CodecDone("decode_nprofile") \/ CodecDone("decode_naddr")) =>
        /\ cres.ok => cres.relays = HintsOf(carg.recs)
        /\ RelaysAside => cres.ok

\* two relays came out in order although an undecodable value stood between them
C13_Witness ==
    /\ CodecDone("decode_naddr") /\ cres.ok
    /\ RecValues(carg.recs, 1) = <<RelayC, NotUtf8, RelayA>>
    /\ cres.relays = <<RelayC, RelayA>>

\* the same for an nprofile
C13_ProfileWitness ==
    /\ CodecDone("decode_nprofile") /\ cres.ok
    /\ RecValues(carg.recs, 1) = <<RelayC, NotUtf8, RelayA>>
    /\ cres.relays = <<RelayC, RelayA>>

\* the conditions on a text, read off its characters
CaseOk(t) ==
    \/ \A i \in 1..Len(t) : ~IsUpperCh(t[i])
    \/ \A i \in 1..Len(t) : ~IsLowerCh(t[i])
RangeOk(t) == \A i \in 1..Len(t) : t[i] \in 33..126
\* the rightmost '1' is at offset >= 1 (position >= 2) with 6 characters or more after it
SepOk(t) ==
    \E p \in 2..Len(t) :
        t[p] = 49 /\ (\A q \in (p + 1)..Len(t) : t[q] # 49) /\ Len(t) - p >= 6
\* every character after the rightmost '1' is one of the 32 symbols
AlphabetOk(t) ==
    \A i \in 1..Len(t) :
        (\A q \in i..Len(t) : t[q] # 49) => InCharset(LowerCh(t[i]))
\* the checksum characters are the ones the encoding computed
ChecksumIntact == carg.variant # "corrupt"
\* 5n bits regrouped by 8 leave r < 5 bits, the low r bits of the last word, all zero
LeftoverOk(words) ==
    LET r == (5 * Len(words)) % 8
    IN  r < 5 /\ (r = 0 \/ words[Len(words)] % (2 ^ r) = 0)

\* the number a list of 5-bit words spells, most significant word first
RECURSIVE WordsNat(_)
WordsNat(w) == IF w = <<>> THEN 0 ELSE 32 * WordsNat(SubSeq(w, 1, Len(w) - 1)) + w[Len(w)]

\* the whole bytes of the bits of the words
PayloadOf(words) ==
    LET k == (5 * Len(words)) \div 8
        m == WordsNat(words) \div (2 ^ ((5 * Len(words)) % 8))
    IN  [i \in 1..k |-> (m \div (256 ^ (k - i))) % 256]

\* C14: the bech32 decoder returns a prefix and a payload exactly when the text
\* is in one case, every character is in [33,126], the rightmost '1' is at
\* offset >= 1 with at least 6 characters after it, every data character is in
\* the alphabet, the checksum is the right one, and the regrouping leaves fewer
\* than 5 bits, all zero; then the prefix is the lowercase prefix and the payload
\* the bytes of the words; otherwise it fails and returns neither.
C14_AcceptsIffWellFormed ==
    CodecDone("_nip19_payload") =>
        /\ cres.ok <=> /\ CaseOk(carg.text) /\ RangeOk(carg.text)
                       /\ SepOk(carg.text) /\ AlphabetOk(carg.text)
                       /\ ChecksumIntact /\ LeftoverOk(carg.words)
        /\ cres.ok => (cres.hrp = carg.hrp /\ cres.payload = PayloadOf(carg.words))
        /\ ~cres.ok => DOMAIN cres = {"ok", "err"}

\* a text in upper case was decoded to a payload of two bytes
C14_Witness ==
    /\ CodecDone("_nip19_payload") /\ carg.variant = "upper"
    /\ carg.text # Lower(carg.text)
    /\ cres.ok /\ Len(cres.payload) = 2

C15_CaseChangeAccepted ==
    /\ CodecDone("substitute") /\ cres.orig.ok
    /\ carg.ch # carg.text[carg.pos] /\ carg.ch = UpperCh(carg.text[carg.pos])
    /\ cres.subst = cres.orig

\* the words of kind k of a text, in order
RECURSIVE WordsOfKind(_, _)
WordsOfKind(ws, k) ==
    IF ws = <<>> THEN <<>>
    ELSE (IF ws[1].kind = k THEN <<ws[1]>> ELSE <<>>) \o WordsOfKind(Tail(ws), k)

\* C25: _find_candidate_token returns the leftmost substring of the token shape
\* when the text holds one, as it is written, also when 64 hex digits stand
\* before it; without such a substring it returns the leftmost 64 hex digits in
\* lower case; without either it returns the text without the blanks around it.
C25_TokenBeforeHex ==
    CodecDone("_find_candidate_token") =>
        LET tokens == WordsOfKind(carg.words, "token")
            hexes == WordsOfKind(carg.words, "hex")
        IN  IF tokens # <<>> THEN cres = tokens[1].want
            ELSE IF hexes # <<>> THEN cres = hexes[1].want
            ELSE cres = JoinWords(carg.words)

\* 64 hex digits stand before a token and the token was returned
C25_Witness ==
    /\ CodecDone("_find_candidate_token")
    /\ Len(carg.words) = 2
    /\ carg.words[1].kind = "hex" /\ carg.words[2].kind = "token"
    /\ cres = carg.words[2].want

----------------------------------------------------------------------------
(* Properties of http_request                                              *)

HttpDone == hpc = "done"

\* an attempt failed: transport exception, status >= 500, or status 429
AttemptFailed(c) ==
    \/ c.outcome.kind = "raise"
    \/ c.outcome.kind = "response" /\ (c.outcome.status >= 500 \/ c.outcome.status = 429)

\* the exception a failed attempt ends with
AttemptException(c) ==
    IF c.outcome.kind = "raise" THEN c.outcome.exc ELSE Exc("RuntimeError", c.outcome.status)

\* the call returned the response of its last attempt, which did not fail
ReturnedAnAttempt ==
    /\ hresult.kind = "return"
    /\ Len(calls) >= 1
    /\ calls[Len(calls)].outcome = Response(hresult.status)
    /\ ~AttemptFailed(calls[Len(calls)])

\* all max_retries attempts failed and the call raised the exception of the last
RaisedLastException ==
    /\ hresult.kind = "raise"
    /\ Len(calls) = max_retries
    /\ \A i \in 1..Len(calls) : AttemptFailed(calls[i])
    /\ hresult.exc = AttemptException(calls[Len(calls)])

\* C2: every call of http_request terminates; it never makes more than
\* max_retries urlopen calls; when it has terminated it either returned the
\* response of an attempt or, all max_retries attempts having failed
\* (exception, status >= 500 or 429), raised the exception of the last attempt.
C2_TerminatesWithinMaxRetries ==
    /\ <>HttpDone
    /\ [](Len(calls) <= max_retries)
    /\ [](HttpDone => (ReturnedAnAttempt \/ RaisedLastException))

\* a call with the default max_retries whose three attempts failed in three
\* different ways and that raised the RuntimeError of the third
C2_Witness ==
    /\ HttpDone /\ max_retries = DEFAULT_MAX_RETRIES /\ opener = "patched"
    /\ Len(calls) = DEFAULT_MAX_RETRIES
    /\ calls[1].answer = NoAnswer /\ calls[2].answer = 429 /\ calls[3].answer = 500
    /\ hresult = Raised(Exc("RuntimeError", 500))

\* a status the server can answer with that is below 500 and not 429
PassStatus(a) == a # NoAnswer /\ a < 500 /\ a # 429

\* C3 as stated: whenever the server answered an attempt with a status below 500
\* other than 429, that attempt is the last one, no backoff sleep followed it,
\* and the call ends by returning a response with that status.
C3_AnswerReturnedFromSameAttempt ==
    \A i \in 1..Len(calls) :
        PassStatus(calls[i].answer) =>
            /\ i = Len(calls)
            /\ Len(sleeps) < i
            /\ hpc \in {"resume", "done"}
            /\ HttpDone => hresult = Returned(calls[i].answer)

\* the default call against urllib.request.urlopen and a server that answers 404
\* every time: three requests, three sleeps, HTTPError raised
C3_Http404Retried ==
    /\ HttpDone /\ opener = "urllib" /\ max_retries = DEFAULT_MAX_RETRIES
    /\ Len(calls) = 3 /\ \A i \in 1..3 : calls[i].answer = 404
    /\ sleeps = <<500, 1000, 2000>>
    /\ hresult = Raised(Exc("HTTPError", 404))

\* C4: http_request never returns a response whose status is >= 500 or 429; an
\* attempt answered that way is followed by another attempt unless it was the
\* last allowed one; a call whose first answer is 500 and whose second is 200
\* ends after exactly two urlopen calls by returning the 200 response.
C4_NeverReturnsRetryStatus ==
    /\ hresult.kind = "return" => (hresult.status < 500 /\ hresult.status # 429)
    /\ HttpDone =>
         /\ \A i \in 1..Len(calls) :
               (calls[i].outcome.kind = "response"
                  /\ (calls[i].outcome.status >= 500 \/ calls[i].outcome.status = 429))
               => (i < Len(calls) \/ i = max_retries)
         /\ (Len(calls) >= 2 /\ calls[1].answer = 500 /\ calls[2].answer = 200)
               => (Len(calls) = 2 /\ hresult = Returned(200))

\* the run of test_http_request_retry_then_success: a 500 response, one sleep
\* of 0.5 s, a 200 response, returned
C4_Witness ==
    /\ HttpDone /\ opener = "patched" /\ method = "GET"
    /\ Len(calls) = 2
    /\ calls[1].outcome = Response(500) /\ calls[2].outcome = Response(200)
    /\ sleeps = <<500>>
    /\ hresult = Returned(200)

\* C20: the sleep that follows the failed attempt with 0-based index k lasts
\* 0.5 * 2^k seconds (500, 1000, 2000 ms); every failed attempt is followed by
\* its sleep before anything else happens, so a second attempt is made only
\* after a sleep of at least 0.5 s; each sleep is twice the one before.
C20_BackoffDoubles ==
    /\ Len(sleeps) = attempt
    /\ \A i \in 1..Len(sleeps) : AttemptFailed(calls[i]) /\ sleeps[i] = 500 * (2 ^ (i - 1))
    /\ \A i \in 1..(Len(sleeps) - 1) : sleeps[i + 1] = 2 * sleeps[i]
    /\ Len(calls) <= Len(sleeps) + 1
    /\ Len(calls) >= 2 => sleeps[1] >= 500

\* two failed attempts, sleeps of 0.5 s and 1 s, then an answer that is returned
C20_Witness ==
    /\ HttpDone /\ Len(calls) = 3
    /\ sleeps = <<500, 1000>>
    /\ hresult.kind = "return"

\* the worker thread of asyncio.to_thread is running _do
ThreadRunning == pending = InFlight

\* C21 as stated: no operation spawns a separate thread of execution, so there
\* is never a thread that runs an HTTP attempt.
C21_NoThreadEver == ~ThreadRunning

\* C21 amended: each HTTP attempt runs in a worker thread, one at a time; the
\* thread runs only while the coroutine that started it is suspended at its
\* await, and the coroutine is at that await only while the thread runs, so an
\* attempt never runs in parallel with the coroutine that awaits it; no thread
\* runs during a backoff sleep, at the loop test or after the call has ended.
C21_ThreadOnlyWhileAwaited ==
    /\ ThreadRunning <=> hpc = "in_thread"
    /\ hpc \in {"start", "loop", "resume", "backoff", "done"} => ~ThreadRunning
    /\ Len(calls) <= attempt + 1

\* the thread of the second attempt is running while the coroutine awaits it
C21_Witness ==
    /\ ThreadRunning /\ hpc = "in_thread"
    /\ Len(calls) = 1 /\ sleeps = <<500>>

RECURSIVE SumSeq(_)
SumSeq(q) == IF q = <<>> THEN 0 ELSE q[1] + SumSeq(Tail(q))

\* C27: every failed attempt, the last one included, has had its sleep when the
\* loop condition is tested again; a call whose max_retries attempts all failed
\* has slept max_retries times when it raises (3500 ms in all for 3 attempts),
\* and each step out of the except clause is the sleep, back to the loop test.
C27_SleepAfterEveryFailure ==
    /\ hpc = "loop" => (Len(sleeps) = Len(calls) /\ \A i \in 1..Len(calls) : AttemptFailed(calls[i]))
    /\ (HttpDone /\ hresult.kind = "raise") =>
          /\ Len(calls) = max_retries /\ Len(sleeps) = max_retries
          /\ \A i \in 1..Len(calls) : AttemptFailed(calls[i])
          /\ max_retries = DEFAULT_MAX_RETRIES => SumSeq(sleeps) = 3500
    /\ (HttpDone /\ hresult.kind = "return") => Len(sleeps) = Len(calls) - 1

\* three attempts failed and the call raised after sleeps of 0.5 s, 1 s and 2 s
C27_Witness ==
    /\ HttpDone /\ hresult.kind = "raise"
    /\ max_retries = 3 /\ Len(calls) = 3
    /\ sleeps = <<500, 1000, 2000>>

----------------------------------------------------------------------------
(* Properties of parse_or_resolve_event_id and resolve_naddr_to_event_id   *)

ResolveDone == rpc = "done"

Count(op) == Cardinality({i \in 1..Len(trace) : trace[i].op = op})

NetworkUsed == \E i \in 1..Len(trace) : trace[i].op \in NetworkOps

ResolverCalled == Count("resolve_naddr_to_event_id") > 0

\* tok, the normalised candidate token of the input, has the prefix naddr1 (in
\* any case); tok is set by the first step of the call
NaddrToken == StartsWith(Lower(tok), NADDR1)

\* C1: the normalised candidate token starts with naddr1 (compared
\* case-insensitively, as the code does) exactly for the inputs that carry an
\* naddr; a relay client is created, connected or queried, and the resolver is
\* entered, only for such a token, and such a token always enters the resolver;
\* a call for any other input ends without any network operation, returning the
\* id the SDK parsed or raising the local format error.
C1_NetworkOnlyForNaddr ==
    /\ rpc # "start" => (NaddrToken <=> rinput.label \in {"naddr", "naddr_like"})
    /\ (NetworkUsed \/ ResolverCalled) => NaddrToken
    /\ (NaddrToken /\ rpc \notin {"start", "dispatch"}) => ResolverCalled
    /\ (ResolveDone /\ ~NaddrToken) =>
          /\ ~NetworkUsed
          /\ rresult \in {ReturnId(<<>>), RaiseErr(UnsupportedFormat)}

\* an nprofile inside a web URL, resolved locally with no network operation
C1_Witness ==
    /\ ResolveDone /\ rinput.label = "nprofile" /\ rinput.wrap = "url"
    /\ StartsWith(tok, NPROFILE1)
    /\ Count("EventId.parse") = 1 /\ ~NetworkUsed
    /\ rresult.kind \in {"return", "raise"}

\* C5: one call creates at most one client, connects at most once (exactly once
\* when a client was created) and queries at most once; after a connect or a
\* query that raised there is no further connect or query, and the call ends
\* by raising that fault.
C5_SingleAttemptNoRetry ==
    /\ Count("Client") <= 1 /\ Count("connect") <= 1 /\ Count("fetch_events") <= 1
    /\ (ResolveDone /\ client.created) => Count("connect") = 1
    /\ \A i \in 1..Len(trace) :
          (trace[i].op \in {"connect", "fetch_events"} /\ ~trace[i].ok) =>
             /\ \A j \in (i + 1)..Len(trace) : trace[j].op \notin {"connect", "fetch_events"}
             /\ ResolveDone =>
                   rresult = RaiseErr(IF trace[i].op = "connect" THEN "connect fault"
                                      ELSE "fetch_events fault")

\* a call whose single query raised: one connect, one query, the fault raised
C5_Witness ==
    /\ ResolveDone /\ Count("connect") = 1 /\ Count("fetch_events") = 1
    /\ \E i \in 1..Len(trace) : trace[i].op = "fetch_events" /\ ~trace[i].ok
    /\ rresult = RaiseErr("fetch_events fault")

\* C6 as stated: a call that queried ends with the not-found error exactly when
\* the query completed and returned zero events; a query that raised ends the
\* call with the fault; a query that returned at least one event ends it by
\* returning the hex id of the first returned event; a call that did not query
\* never ends with the not-found error.
C6_NotFoundIffZeroEvents ==
    ResolveDone =>
        /\ Count("fetch_events") = 0 => rresult # RaiseErr(NoEventFound)
        /\ \A i \in 1..Len(trace) :
              trace[i].op = "fetch_events" =>
                 /\ (rresult = RaiseErr(NoEventFound)) <=> (trace[i].ok /\ trace[i].arg = <<>>)
                 /\ ~trace[i].ok => rresult = RaiseErr("fetch_events fault")
                 /\ (trace[i].ok /\ trace[i].arg # <<>>) =>
                        rresult = ReturnId(IdHex(trace[i].arg[1]))

\* the query returned an event and the call ended with the not-found error
C6_EventsLostAsNotFound ==
    /\ ResolveDone
    /\ \E i \in 1..Len(trace) :
          trace[i].op = "fetch_events" /\ trace[i].ok /\ trace[i].arg = <<Event(1)>>
    /\ rresult = RaiseErr(NoEventFound)

\* the arguments of the add_relay calls made so far, in order
RECURSIVE AddRelayArgs(_)
AddRelayArgs(tr) ==
    IF tr = <<>> THEN <<>>
    ELSE (IF tr[1].op = "add_relay" THEN <<tr[1].arg>> ELSE <<>>) \o AddRelayArgs(Tail(tr))

IsPrefix(a, b) == Len(a) <= Len(b) /\ SubSeq(b, 1, Len(a)) = a

\* C7: the relays passed to add_relay are, in order, the relay hints embedded in
\* the naddr when there is at least one, and the caller's relay_urls otherwise:
\* at every moment a prefix of that list, the whole list once connect is called;
\* no call adds a relay of each list.
C7_RelaysEmbeddedElseFallback ==
    /\ IsPrefix(AddRelayArgs(trace),
                IF HintsOf(rinput.recs) # <<>> THEN HintsOf(rinput.recs) ELSE relay_urls)
    /\ Count("connect") > 0 =>
          AddRelayArgs(trace) =
             (IF HintsOf(rinput.recs) # <<>> THEN HintsOf(rinput.recs) ELSE relay_urls)
    /\ ~(/\ \E i \in 1..Len(trace) : trace[i].op = "add_relay" /\ trace[i].arg = RelayA
         /\ \E i \in 1..Len(trace) : trace[i].op = "add_relay" /\ trace[i].arg = RelayC)

\* an naddr with a relay hint resolved with a non-empty relay_urls: only the hint
\* was added
C7_Witness ==
    /\ ResolveDone /\ Count("connect") = 1
    /\ HintsOf(rinput.recs) = <<RelayA>> /\ relay_urls = <<RelayC, RelayC>>
    /\ AddRelayArgs(trace) = <<RelayA>>

\* the stage of a step: 1 normalise and dispatch, 2 bech32 decode, 3 TLV parse,
\* 4 field reconstruction, 5 network resolve
Rank(op) ==
    IF op \in {"normalize", "resolve_naddr_to_event_id", "parse_nostr_id_local_only"} THEN 1
    ELSE IF op \in {"bech32", "EventId.parse"} THEN 2
    ELSE IF op = "tlv" THEN 3
    ELSE IF op = "fields" THEN 4
    ELSE 5

\* the errors of malformed input
FormatErrors ==
    {"Not an naddr", "Invalid bech32 string", "Invalid bech32 payload conversion",
     "Invalid naddr bech32", "IndexError", "naddr missing identifier (TLV 0)",
     "naddr identifier (TLV 0) is not valid UTF-8",
     "naddr missing author pubkey (TLV 2 len 32)", "naddr missing kind (TLV 3 len 4)",
     UnsupportedFormat}

\* C8: the steps of one call occur in the order normalise, bech32 decode, TLV
\* parse, field reconstruction, network resolve, each decode step at most once;
\* a client exists only after all three decode steps succeeded; a decode step
\* that fails is the last step of the call, and a call that ends with a format
\* or missing-field error has performed no network operation.
C8_StepsInOrder ==
    /\ \A i \in 1..Len(trace) : \A j \in i..Len(trace) :
          Rank(trace[i].op) <= Rank(trace[j].op)
    /\ Count("bech32") <= 1 /\ Count("tlv") <= 1 /\ Count("fields") <= 1
    /\ NetworkUsed =>
          \A step \in {"bech32", "tlv", "fields"} :
             \E i \in 1..Len(trace) : trace[i].op = step /\ trace[i].ok
    /\ \A i \in 1..Len(trace) :
          (trace[i].op \in {"bech32", "tlv", "fields"} /\ ~trace[i].ok) =>
             (i = Len(trace) /\ ResolveDone /\ rresult.kind = "raise")
    /\ (ResolveDone /\ rresult.kind = "raise" /\ rresult.err \in FormatErrors) => ~NetworkUsed

\* a complete resolution: every step once, in order, and an id returned
C8_Witness ==
    /\ ResolveDone /\ rresult.kind = "return"
    /\ [i \in 1..Len(trace) |-> trace[i].op] =
          <<"normalize", "resolve_naddr_to_event_id", "normalize", "bech32", "tlv", "fields",
            "Client", "add_relay", "connect", "Filter", "fetch_events", "disconnect">>

----------------------------------------------------------------------------
(* Properties of fetch_relay_min_pow                                       *)

PowDone == ppc = "done"

\* the URL of relay i was written with one of the four schemes that have an HTTP form
KnownScheme(i) == probes[i].url.kind \in {"wss", "ws", "https", "http"}

MaxOf(S) == CHOOSE m \in S : \A x \in S : m >= x

\* the values the entries carry
OwnValues == {diag[i].min_pow.n : i \in {j \in 1..Len(diag) : diag[j].min_pow.some}}

AnswerOf(i) == probes[i].answer

\* C17 as stated: an endpoint whose request is answered with a status other
\* than 200, or with status 200 and an empty body, is reported unreachable and
\* without a value.
C17_Non200OrEmptyUnreachable ==
    \A i \in 1..Len(diag) :
        (/\ KnownScheme(i) /\ AnswerOf(i).kind = "response"
         /\ (AnswerOf(i).status # 200 \/ AnswerOf(i).content = "empty"))
            => (~diag[i].reachable /\ ~diag[i].min_pow.some)

\* C17 amended: an endpoint answered with a status other than 200 is reported
\* unreachable, without a value and not forced, whatever the body says; an
\* endpoint answered with status 200 and an empty body is reported reachable,
\* without a value and not forced.
C17_Non200UnreachableEmptyReachable ==
    \A i \in 1..Len(diag) :
        (KnownScheme(i) /\ AnswerOf(i).kind = "response") =>
            /\ AnswerOf(i).status # 200
                  => (~diag[i].reachable /\ ~diag[i].min_pow.some /\ ~diag[i].forced)
            /\ (AnswerOf(i).status = 200 /\ AnswerOf(i).content = "empty")
                  => (diag[i].reachable /\ ~diag[i].min_pow.some /\ ~diag[i].forced)

\* a relay that answered 404 with a body advertising 15 is unreachable, and 15
\* is not the returned maximum
C17_Witness ==
    /\ PowDone
    /\ \E i \in 1..Len(diag) :
          /\ AnswerOf(i).status = 404 /\ AnswerOf(i).info = Info1("limitation", Lim15)
          /\ ~diag[i].reachable /\ ~diag[i].min_pow.some
    /\ presult.max_pow # 15

\* a relay that answered 200 with an empty body is reported reachable
C17_EmptyBodyReachable ==
    /\ PowDone
    /\ \E i \in 1..Len(diag) :
          /\ AnswerOf(i).kind = "response" /\ AnswerOf(i).status = 200
          /\ AnswerOf(i).content = "empty"
          /\ diag[i].reachable /\ ~diag[i].min_pow.some

KeySet == {keys_to_check[k] : k \in 1..Len(keys_to_check)}

\* the largest number under the known names of a sub-object among the members
\* whose type is in types, or no value
ValueIn(sub, types) ==
    IF sub.t # "dict" THEN NoPow
    ELSE LET S == {sub.fields[k].n :
                     k \in {m \in DOMAIN sub.fields \cap KeySet : sub.fields[m].t \in types}}
         IN  IF S = {} THEN NoPow ELSE SomePow(MaxOf(S))

\* the sub-object of the first key that is there
FirstPresent(info) ==
    IF "limitation" \in DOMAIN info.fields THEN info.fields["limitation"]
    ELSE IF "limits" \in DOMAIN info.fields THEN info.fields["limits"]
    ELSE EmptyDict

\* the sub-object of the first key that is there with a non-empty object
FirstNonEmpty(info) ==
    IF "limitation" \in DOMAIN info.fields /\ Truthy(info.fields["limitation"])
    THEN info.fields["limitation"]
    ELSE IF "limits" \in DOMAIN info.fields /\ Truthy(info.fields["limits"])
    THEN info.fields["limits"]
    ELSE EmptyDict

\* C18 as stated: the value of a reachable endpoint comes from 'limitation'
\* when that key is present and from 'limits' only when it is absent, and is the
\* largest integer under the eight known names there, or no value.
C18_FirstPresentSubObject ==
    \A i \in 1..Len(diag) :
        (diag[i].reachable /\ AnswerOf(i).content = "json")
            => diag[i].min_pow = ValueIn(FirstPresent(AnswerOf(i).info), {"int"})

\* C18 amended: the value of a reachable endpoint comes from 'limitation' when
\* that key holds a non-empty object, otherwise from 'limits' (so also when
\* 'limitation' is there but empty or null), and is the largest number under the
\* eight known names there whose JSON value is an integer or a boolean (true
\* counting as 1), or no value when there is none.
C18_FirstNonEmptySubObject ==
    \A i \in 1..Len(diag) :
        (diag[i].reachable /\ AnswerOf(i).content = "json")
            => diag[i].min_pow = ValueIn(FirstNonEmpty(AnswerOf(i).info), {"int", "bool"})

\* a relay with limitation = {pow: 5, difficulty: 20} has the value 20
C18_Witness ==
    /\ PowDone
    /\ \E i \in 1..Len(diag) :
          /\ diag[i].reachable /\ AnswerOf(i).content = "json"
          /\ "limitation" \in DOMAIN AnswerOf(i).info.fields
          /\ DOMAIN AnswerOf(i).info.fields["limitation"].fields = {"pow", "difficulty"}
          /\ diag[i].min_pow = SomePow(20)

\* a relay with an empty 'limitation' and limits = {pow: 5} has the value 5
C18_EmptyLimitationFallsThrough ==
    /\ PowDone
    /\ \E i \in 1..Len(diag) :
          /\ AnswerOf(i).info = Info2(EmptyDict, Lim5)
          /\ diag[i].reachable /\ diag[i].min_pow = SomePow(5)

\* the HTTP form of a URL, from the parts the URL was written from
ExpectedHttp(u) ==
    IF u.kind = "wss" THEN HTTPS \o COLON_SLASHES \o u.host \o u.path
    ELSE IF u.kind = "ws" THEN HTTP \o COLON_SLASHES \o u.host \o u.path
    ELSE u.text

\* the requests that the first n relays call for
RECURSIVE ExpectedRequests(_)
ExpectedRequests(n) ==
    IF n = 0 THEN <<>>
    ELSE ExpectedRequests(n - 1)
         \o (IF KnownScheme(n) THEN <<ExpectedHttp(probes[n].url)>> ELSE <<>>)

\* C19: convert_ws_to_http turns a wss URL into https and a ws URL into http
\* with the same host and path, hands http and https URLs back unchanged and
\* gives nothing for anything else; fetch_relay_min_pow sends one request per
\* relay that has an HTTP form, to that form and in order, sends none for a
\* relay of another scheme and reports that relay unreachable, without a value
\* and not forced.
C19_ConvertedOrSkipped ==
    /\ \A u \in UrlSamples :
          convert_ws_to_http(u.text) =
              IF u.kind = "other" THEN NoneUrl ELSE SomeUrl(ExpectedHttp(u))
    /\ requests = ExpectedRequests(Len(diag) + (IF ppc = "await" THEN 1 ELSE 0))
    /\ \A i \in 1..Len(diag) :
          ~KnownScheme(i) => diag[i] = Entry(probes[i].url.text)

\* a relay of an unknown scheme was skipped and the wss relay after it was
\* asked at its https form
C19_Witness ==
    /\ PowDone /\ Len(probes) = 2
    /\ probes[1].url.text = FOO \o COLON_SLASHES \o HostA
    /\ probes[2].url.text = WSS \o COLON_SLASHES \o HostA \o PathX
    /\ requests = <<HTTPS \o COLON_SLASHES \o HostA \o PathX>>
    /\ ~diag[1].reachable /\ diag[2].reachable

\* relay i was given up: its scheme has no HTTP form, http_request raised, the
\* status was not 200 or the document could not be read as NIP-11
GivenUp(i) ==
    \/ ~KnownScheme(i)
    \/ probes[i].answer.kind = "raise"
    \/ probes[i].answer.status # 200
    \/ probes[i].answer.content = "garbage"
    \/ (probes[i].answer.content = "json" /\ probes[i].answer.info.t # "dict")

\* C28: fetch_relay_min_pow never raises and returns exactly one entry per
\* relay URL, in the order of the list, whatever mix of unknown schemes, failed
\* requests, non-200 statuses and malformed documents it meets; an entry that
\* is not reachable has min_pow None and forced false, and the maximum it
\* returns is never negative.
C28_NeverRaisesOneEntryPerRelay ==
    /\ ~presult.raised
    /\ max_pow >= 0 /\ presult.max_pow >= 0
    /\ Len(diag) <= Len(probes)
    /\ \A i \in 1..Len(diag) :
          /\ diag[i].url = probes[i].url.text
          /\ GivenUp(i) => ~diag[i].reachable
          /\ ~diag[i].reachable => (diag[i].min_pow = NoPow /\ ~diag[i].forced)
    /\ PowDone => (Len(presult.diag) = Len(probes) /\ presult.diag = diag)

\* http_request raised for the first relay and the second answered with a
\* document that is not JSON: two entries, both unreachable, maximum 0
C28_Witness ==
    /\ PowDone /\ Len(probes) = 2
    /\ probes[1].answer.kind = "raise"
    /\ probes[2].answer.kind = "response" /\ probes[2].answer.content = "garbage"
    /\ Len(presult.diag) = 2 /\ presult.max_pow = 0
    /\ ~presult.diag[1].reachable /\ ~presult.diag[2].reachable

\* resolve_pow has returned
PowResolved == ppc = "resolved"

\* the minimum difficulties advertised by the reachable relays of the list
Advertised ==
    {diag[i].min_pow.n : i \in {j \in 1..Len(diag) : diag[j].reachable /\ diag[j].min_pow.some}}

\* C29 as stated: resolve_pow returns at least DEFAULT_POW and at least what
\* every reachable relay advertises, and exactly DEFAULT_POW when no relay is
\* reachable or none advertises a value.
C29_ExactlyDefaultWithoutAdvert ==
    PowResolved =>
        /\ chosen >= DEFAULT_POW
        /\ \A v \in Advertised : chosen >= v
        /\ Advertised = {} => chosen = DEFAULT_POW

\* C29: resolve_pow returns at least DEFAULT_POW and at least what every
\* reachable relay advertises; when no relay is reachable or none advertises a
\* value it returns DEFAULT_POW if that is not negative, and 0 otherwise.
C29_AtLeastDefaultAndAdvertised ==
    PowResolved =>
        /\ chosen >= DEFAULT_POW
        /\ \A v \in Advertised : chosen >= v
        /\ chosen \in Advertised \cup {DEFAULT_POW, 0}
        /\ Advertised = {} =>
              chosen = (IF DEFAULT_POW >= 0 THEN DEFAULT_POW ELSE 0)

\* with the default of 10, a relay advertising 15 and one advertising 5 give 15
C29_Witness ==
    /\ PowResolved /\ DEFAULT_POW = 10 /\ Len(probes) = 2
    /\ Advertised = {15, 5} /\ chosen = 15

\* SCRUTINY_POW = -1 and a relay that cannot be reached: 0 is returned
C29_NegativeDefault ==
    /\ PowResolved /\ DEFAULT_POW = -1 /\ Len(probes) = 1
    /\ ~diag[1].reachable /\ chosen = 0

----------------------------------------------------------------------------
(* Properties of publish_event_with_client                                 *)

PublishDone == pub_pc = "done"

\* the operations performed on Client object i, in order
OpsOf(i) == SelectSeq(pub_trace, LAMBDA e : e.client = i)

\* what was done with Client i before its disconnect failed an operation
FailedOp(i) == \E p \in 1..Len(pub_trace) :
                  /\ pub_trace[p].client = i /\ pub_trace[p].op # "disconnect" /\ ~pub_trace[p].ok

\* the send through Client i succeeded
Sent(i) == \E p \in 1..Len(pub_trace) :
              /\ pub_trace[p].client = i /\ pub_trace[p].op = "send_event_builder" /\ pub_trace[p].ok

\* the operation of Client i that raised
FailureOf(i) ==
    LET p == CHOOSE q \in 1..Len(pub_trace) :
                 /\ pub_trace[q].client = i /\ pub_trace[q].op # "disconnect" /\ ~pub_trace[q].ok
    IN  pub_trace[p].op

\* the names of the operations of q, in order
OpNames(q) == [p \in 1..Len(q) |-> q[p].op]

\* the order in which one relay is worked on: a fresh client, the relay added,
\* connect, send, disconnect, where a failure jumps to the disconnect
OneRelayAtATime(q) ==
    /\ \A p \in 1..(Len(q) - 1) :
          q[p + 1].op = "disconnect" <=> (~q[p].ok \/ q[p].op = "send_event_builder")
    /\ \E m \in 0..4 :
          OpNames(q) \in
              { SubSeq(<<"Client", "add_relay", "connect", "send_event_builder">>, 1, m),
                SubSeq(<<"Client", "add_relay", "connect", "send_event_builder">>, 1, m)
                    \o <<"disconnect">> }

\* C22: in mode first_success the relays are tried one at a time in list order,
\* each through a client of its own; the call stops at the first relay whose
\* send succeeds and returns the id of the event, contacting no later relay; a
\* relay that fails only leads to the next one, and when all have failed the
\* error of the last relay is raised, a generic error if the list is empty.
C22_FirstSuccessInOrder ==
    (PUBLISH_MODE = "first_success" /\ ~DRY_RUN /\ pub_pc # "idle") =>
        /\ clients <= Len(pub_relay_urls)
        /\ \A p, q \in 1..Len(pub_trace) : p < q => pub_trace[p].client <= pub_trace[q].client
        /\ \A i \in 1..clients :
              /\ OneRelayAtATime(OpsOf(i))
              /\ \A p \in 1..Len(pub_trace) :
                    (pub_trace[p].client = i /\ pub_trace[p].op = "add_relay")
                        => pub_trace[p].arg = pub_relay_urls[i]
              /\ i < clients => (FailedOp(i) /\ ~Sent(i))
        /\ \A p \in 1..Len(pub_trace) : pub_trace[p].client \in 1..clients
        /\ PublishDone =>
              /\ pub_result.kind \in {"return", "raise"}
              /\ pub_result.kind = "return" <=> (clients > 0 /\ Sent(clients))
              /\ pub_result.kind = "return" => pub_result.id = SignedIdHex(builder)
              /\ pub_result.kind = "raise" =>
                    /\ clients = Len(pub_relay_urls)
                    /\ pub_result.err = IF clients = 0 THEN AllRelaysFailed
                                        ELSE Err(clients, FailureOf(clients))

\* the test's case extended by one relay: the first relay fails at connect,
\* the second accepts the event, the third is never contacted
C22_Witness ==
    /\ PublishDone /\ PUBLISH_MODE = "first_success" /\ ~DRY_RUN
    /\ Len(pub_relay_urls) = 3 /\ clients = 2
    /\ FailedOp(1) /\ FailureOf(1) = "connect" /\ Sent(2)
    /\ pub_result = PubReturn(SignedIdHex(builder))

\* the operations that need a relay client
ClientOps == {"Client", "add_relay", "connect", "send_event_builder", "disconnect"}

\* h is the text of 64 lower-case hexadecimal digits
IsHex64(h) == Len(h) = 64 /\ \A p \in 1..64 : \E d \in 1..16 : h[p] = HexDigits[d]

\* C23: while DRY_RUN is set publish_event_with_client creates no client and
\* adds no relay, connects to nothing and sends nothing, in either publish
\* mode and for every relay list; it signs the event locally and returns its
\* id, 64 hexadecimal digits.
C23_DryRunTouchesNoRelay ==
    (DRY_RUN /\ pub_pc # "idle") =>
        /\ clients = 0
        /\ \A p \in 1..Len(pub_trace) : pub_trace[p].op \notin ClientOps
        /\ PublishDone =>
              /\ pub_trace = <<PEv("sign", 0, <<>>, TRUE)>>
              /\ pub_result = PubReturn(SignedIdHex(builder))
              /\ IsHex64(pub_result.id)

\* a dry run in mode first_success with three relays has ended
C23_Witness ==
    /\ PublishDone /\ DRY_RUN /\ PUBLISH_MODE = "first_success"
    /\ Len(pub_relay_urls) = 3 /\ clients = 0
    /\ pub_result.kind = "return" /\ Len(pub_result.id) = 64

\* the positions of q that hold operation op
PositionsOf(q, op) == {p \in 1..Len(q) : q[p].op = op}

\* the last operation on Client i of publish_event_with_client is its one disconnect
DisconnectedLast(i) ==
    Bind(OpsOf(i), LAMBDA q : PositionsOf(q, "disconnect") = {Len(q)})

\* C26: every client that resolve_naddr_to_event_id or publish_event_with_client
\* (in either mode) creates has disconnect called on it, once and as its last
\* operation, before the function returns or raises: after a success, after
\* "no event found" and after an exception of add_relay, connect, the query or
\* the send; and whether disconnect itself succeeds or raises, the function
\* returns the id or raises the error it had before.
C26_EveryClientDisconnected ==
    /\ pub_pc # "idle" =>
          /\ \A i \in 1..(clients - 1) : DisconnectedLast(i)
          /\ PublishDone =>
                /\ \A i \in 1..clients : DisconnectedLast(i)
                /\ (clients > 0 /\ Sent(clients)) => pub_result = PubReturn(SignedIdHex(builder))
                /\ (clients > 0 /\ ~Sent(clients)) =>
                      /\ pub_result.kind = "raise"
                      /\ \E p \in 1..Len(pub_trace) :
                            /\ pub_trace[p].client = clients /\ ~pub_trace[p].ok
                            /\ pub_trace[p].op = pub_result.err.op
                            /\ pub_trace[p].op # "disconnect"
    /\ (rpc = "done" /\ client.created) =>
          /\ PositionsOf(trace, "Client") # {}
          /\ PositionsOf(trace, "disconnect") = {Len(trace)}
          /\ rresult = IF rfault # "None" THEN RaiseErr(rfault)
                       ELSE ReturnId(IdHex(events_list[1]))
          /\ rresult.kind = "raise" =>
                \/ rresult.err = NoEventFound
                \/ \E p \in 1..Len(trace) : ~trace[p].ok /\ trace[p].op # "disconnect"

\* a broadcast whose send succeeded and whose disconnect raised: the id is returned
C26_Witness ==
    /\ PublishDone /\ PUBLISH_MODE = "broadcast" /\ ~DRY_RUN
    /\ clients = 1 /\ Sent(1)
    /\ pub_trace[Len(pub_trace)] = PEv("disconnect", 1, <<>>, FALSE)
    /\ pub_result = PubReturn(SignedIdHex(builder))

----------------------------------------------------------------------------
(* Properties of build_sign_preview_publish and of the evidence flows      *)

\* build_sign_preview_publish has just ended
PreviewEnded == fpc \in {"after_evidence", "after_dependent"} /\ stage # "none"

\* the length pub_trace had when the latest publish_event_with_client ended
RECURSIVE OpsAtLastPublish(_)
OpsAtLastPublish(n) ==
    IF n = 0 THEN 0
    ELSE IF ftrace[n].op \in {"published", "raise"} THEN ftrace[n].info
    ELSE OpsAtLastPublish(n - 1)

\* C24: build_sign_preview_publish calls publish_event_with_client only after
\* the question "Publish?" was answered with yes; when it is declined the
\* function returns (event id, False) and nothing is signed for, or sent to, a
\* relay; published = True is returned only after publish_event_with_client
\* has returned, and with the id that call returned.
C24_PublishOnlyAfterConfirm ==
    fpc # "idle" =>
        /\ \A p \in 1..Len(ftrace) :
              /\ ftrace[p].op = "publish_event_with_client" =>
                    (p > 1 /\ ftrace[p - 1] = FEv("confirm", ftrace[p].stage, TRUE))
              /\ (ftrace[p].op = "confirm" /\ ~ftrace[p].info /\ p < Len(ftrace)) =>
                    ftrace[p + 1].op \notin {"publish_event_with_client", "published"}
        /\ pub_pc \notin {"idle", "returned"} => fpc = "publishing"
        /\ pub_pc \in {"idle", "returned"} => Len(pub_trace) = OpsAtLastPublish(Len(ftrace))
        /\ PreviewEnded /\ bspp.kind = "return" /\ ~bspp.published =>
              /\ ftrace[Len(ftrace)] = FEv("confirm", stage, FALSE)
              /\ bspp.eid = SignedIdHex(builder)
        /\ PreviewEnded /\ bspp.kind = "return" /\ bspp.published =>
              /\ ftrace[Len(ftrace)].op = "published" /\ ftrace[Len(ftrace)].stage = stage
              /\ pub_pc = "returned" /\ pub_result = PubReturn(bspp.eid)
        /\ PreviewEnded /\ ftrace[Len(ftrace)].op = "raise" => bspp = BsppRaise

\* outside a dry run the question for the evidence event was answered with no:
\* (id, False) came back and no relay client was ever created
C24_Witness ==
    /\ fpc = "after_evidence" /\ ~DRY_RUN /\ pub_relay_urls # <<>>
    /\ ftrace[Len(ftrace)] = FEv("confirm", "evidence", FALSE)
    /\ bspp = BsppReturn(SignedIdHex(BuilderOf("evidence")), FALSE)
    /\ pub_pc = "idle" /\ pub_trace = <<>> /\ clients = 0

\* the positions of ftrace at which something was done for the dependent
\* event: built, signed for the preview, asked about, handed to publish
DependentSteps == {p \in 1..Len(ftrace) : ftrace[p].stage = "dependent"}

\* before position p the evidence metadata event was reported as published
EvidencePublishedBefore(p) ==
    \E q \in 1..(p - 1) : ftrace[q].op = "published" /\ ftrace[q].stage = "evidence"

\* before position p the evidence step ended with an exception: the download
\* failed or publish_event_with_client raised
EvidenceRaisedBefore(p) ==
    \E q \in 1..(p - 1) :
        /\ ftrace[q].op \in {"download_failed", "raise"} /\ ftrace[q].stage = "evidence"

\* the question about the evidence event was answered with no
EvidenceDeclined ==
    \E q \in 1..Len(ftrace) : ftrace[q] = FEv("confirm", "evidence", FALSE)

\* C30 as stated: in both flows the contestation or confirmation is built and
\* offered for publishing only after the evidence metadata event was reported
\* as published, and not at all when the evidence came back unpublished.
C30_DependentOnlyAfterEvidence ==
    fpc # "idle" =>
        /\ \A p \in DependentSteps : EvidencePublishedBefore(p)
        /\ EvidenceDeclined => DependentSteps = {}

\* C30: in create_contestation_event the contestation is built and offered for
\* publishing only after the evidence metadata event was reported as published.
\* In create_confirmation_event the same holds unless the evidence step raised
\* an exception; then "Skipping evidence" is reported and the confirmation is
\* built and offered without a reference to evidence.  In both flows, when the
\* evidence comes back with published = False nothing is built, signed or
\* published for the dependent event; and a dependent event that cites
\* evidence cites the id that was reported as published.
C30_DependentAfterEvidenceOrSkip ==
    fpc # "idle" =>
        /\ \A p \in DependentSteps :
              \/ EvidencePublishedBefore(p)
              \/ flow = "create_confirmation_event" /\ EvidenceRaisedBefore(p)
        /\ \A p \in DependentSteps :
              ftrace[p].op = "build" =>
                  ftrace[p].info = IF EvidencePublishedBefore(p)
                                   THEN SignedIdHex(BuilderOf("evidence")) ELSE <<>>
        /\ EvidenceDeclined => DependentSteps = {}
        /\ (flow = "create_contestation_event" /\ EvidenceRaisedBefore(Len(ftrace) + 1))
              => DependentSteps = {}

\* a contestation whose evidence was published and which was then itself
\* built, previewed and handed to publish_event_with_client
C30_Witness ==
    /\ fpc = "done" /\ flow = "create_contestation_event" /\ ~DRY_RUN
    /\ EvidencePublishedBefore(Len(ftrace))
    /\ \E p \in DependentSteps :
          ftrace[p] = FEv("build", "dependent", SignedIdHex(BuilderOf("evidence")))
    /\ ftrace[Len(ftrace)].op = "published" /\ ftrace[Len(ftrace)].stage = "dependent"

\* a confirmation whose evidence could not be downloaded and which was built
\* and offered all the same
C30_SkippedEvidence ==
    /\ flow = "create_confirmation_event"
    /\ \E q \in 1..Len(ftrace) : ftrace[q] = FEv("download_failed", "evidence", <<>>)
    /\ \E p \in DependentSteps : ftrace[p] = FEv("build", "dependent", <<>>)
    /\ fpc = "confirm" /\ stage = "dependent"

====
